---- MODULE Spec2Model ----
(***************************************************************************)
(* zerialize: the ZERA, MessagePack, CBOR and JSON codecs, the translator  *)
(* and the tensor adapters, modelled at byte level.                        *)
(*                                                                         *)
(* Conventions.  A byte is a number in 0..255 and a buffer is a sequence   *)
(* of bytes; offsets are 0-based as in the source, so the byte at offset   *)
(* k of buffer s is s[k+1].  A 64-bit word is a sequence of 8 bytes, least *)
(* significant first (TLC's integers are 32 bits wide, so a 64-bit value   *)
(* is never held in one TLC integer).  A mathematical integer is a record  *)
(* [neg, mag]: a sign and a magnitude, the magnitude a 64-bit word; zero   *)
(* is never negative.  A C++ exception is the field err of the writer      *)
(* state, or a result record [ok |-> FALSE, err |-> class].                *)
(***************************************************************************)
EXTENDS Integers, Sequences, FiniteSets, TLC

(***************************************************************************)
(* Bytes and words                                                         *)
(***************************************************************************)
Rep(n, b) == [i \in 1..n |-> b]

Min(a, b) == IF a < b THEN a ELSE b

Max(a, b) == IF a < b THEN b ELSE a

\* The n bytes of s starting at offset at.
Slice(s, at, n) == SubSeq(s, at + 1, at + n)

\* s with the bytes at offsets at .. at+Len(d)-1 replaced by d (memcpy).
Patch(s, at, d) ==
  [i \in 1..Len(s) |-> IF i > at /\ i <= at + Len(d) THEN d[i - at] ELSE s[i]]

\* s reversed (big-endian <-> little-endian).
Rev(s) == [i \in 1..Len(s) |-> s[Len(s) + 1 - i]]

LE16(v) == <<v % 256, (v \div 256) % 256>>

LE32(v) ==
  <<v % 256, (v \div 256) % 256, (v \div 65536) % 256, (v \div 16777216) % 256>>

\* A small non-negative number as a 64-bit word.
W64(v) == LE32(v) \o <<0, 0, 0, 0>>

Zero64 == Rep(8, 0)

\* a + b + c over little-endian byte sequences of one length, modulo 256^Len.
RECURSIVE AddLE(_, _, _)
AddLE(a, b, c) ==
  IF a = <<>> THEN <<>>
  ELSE LET s == a[1] + b[1] + c
       IN  <<s % 256>> \o AddLE(Tail(a), Tail(b), s \div 256)

Not64(x) == [i \in 1..Len(x) |-> 255 - x[i]]

\* Two's complement negation modulo 2^64.
Neg64(x) == AddLE(Not64(x), Rep(Len(x), 0), 1)

\* a < b as unsigned numbers (little-endian, one length).
RECURSIVE LtLE(_, _)
LtLE(a, b) ==
  IF a = <<>> THEN FALSE
  ELSE LET n == Len(a)
       IN  IF a[n] # b[n] THEN a[n] < b[n]
           ELSE LtLE(SubSeq(a, 1, n - 1), SubSeq(b, 1, n - 1))

LeLE(a, b) == ~LtLE(b, a)

(***************************************************************************)
(* Mathematical integers in [-2^64, 2^64)                                  *)
(***************************************************************************)
MI(neg, mag) == [neg |-> neg, mag |-> mag]

Pos(v) == MI(FALSE, W64(v))

Minus(v) == MI(TRUE, W64(v))

MLt(x, y) ==
  IF x.neg /\ ~y.neg THEN TRUE
  ELSE IF ~x.neg /\ y.neg THEN FALSE
  ELSE IF x.neg THEN LtLE(y.mag, x.mag)
  ELSE LtLE(x.mag, y.mag)

MLe(x, y) == ~MLt(y, x)

\* 2^(8k-1) and 2^(8k) - 1 as words, k the width in bytes.
PowHalf(k) == [i \in 1..8 |-> IF i = k THEN 128 ELSE 0]

AllOnes(k) == [i \in 1..8 |-> IF i <= k THEN 255 ELSE 0]

\* std::numeric_limits<intN_t>::min(), ::max() and <uintN_t>::max(), N = 8k.
IntMin(k) == MI(TRUE, PowHalf(k))

IntMax(k) == MI(FALSE, [i \in 1..8 |-> IF i < k THEN 255 ELSE IF i = k THEN 127 ELSE 0])

UIntMax(k) == MI(FALSE, AllOnes(k))

\* static_cast<std::uint64_t>(v) of an int64_t v.
u64_of_i64(v) == IF v.neg THEN Neg64(v.mag) ELSE v.mag

\* static_cast<std::int64_t>(bits) of a uint64_t.
i64_of_u64(bits) ==
  IF bits[8] >= 128 THEN MI(TRUE, Neg64(bits)) ELSE MI(FALSE, bits)

\* A uint64_t as a mathematical integer.
m_of_u64(bits) == MI(FALSE, bits)

\* static_cast<intN_t>(v) of an int64_t v, N = 8k: the low k bytes, sign-extended.
cast_int(v, k) ==
  LET bits == u64_of_i64(v)
      ext  == IF bits[k] >= 128 THEN 255 ELSE 0
  IN  i64_of_u64([i \in 1..8 |-> IF i <= k THEN bits[i] ELSE ext])

\* static_cast<uintN_t>(bits) of a uint64_t, N = 8k: the low k bytes.
cast_uint(bits, k) == MI(FALSE, [i \in 1..8 |-> IF i <= k THEN bits[i] ELSE 0])

(***************************************************************************)
(* Results of operations that may throw                                    *)
(***************************************************************************)
Ok(x) == [ok |-> TRUE, val |-> x]

Throw(class) == [ok |-> FALSE, err |-> class]

SerErr == "SerializationError"

DesErr == "DeserializationError"

LogicErr == "std::logic_error"

NoErr == "none"

\* A read outside the bytes of a buffer: undefined behaviour, shown as an
\* error class of its own.
UBErr == "undefined behaviour"

\* F applied to the value of r; a throw r is passed on (the exception
\* propagates out of the rest of the function).
Bind(r, F(_)) == IF ~r.ok THEN r ELSE F(r.val)

\* F applied to v: a local variable initialised with v.
With(v, F(_)) == F(v)

(***************************************************************************)
(* ZERA: constants (zera.hpp)                                              *)
(***************************************************************************)
Magic == 1447970138

Version == 1

HeaderSize == 20

ArenaBaseAlign == 16

InlineMax == 12

RankMax == 8

TagNull == 0

TagBool == 1

TagI64 == 2

TagF64 == 3

TagString == 4

TagArray == 5

TagObject == 6

TagTypedArray == 7

TagU64 == 8

DTypeU8 == 2

\* std::optional without a value (root_ofs_, pending_value_patch).
NoOfs == -1

read_u16_le(s, at) == s[at + 1] + 256 * s[at + 2]

read_u32_le(s, at) ==
  s[at + 1] + 256 * s[at + 2] + 65536 * s[at + 3] + 16777216 * s[at + 4]

align_up(x, a) ==
  IF a = 0 THEN x
  ELSE LET r == x % a IN IF r # 0 THEN x + (a - r) ELSE x

(***************************************************************************)
(* ZERA writer (zera::RootSerializer, zera::Serializer).  The state is a   *)
(* record: st (the container stack, top last), env, arena, root_ofs,       *)
(* inline_threshold, and err/msg, the exception a call has thrown.  The    *)
(* guards against sizes above 2^32 - 1 are left out: no buffer of the      *)
(* model comes near them.                                                  *)
(***************************************************************************)
ZeraRoot ==
  [codec |-> "zera", st |-> <<>>, env |-> <<>>, arena |-> <<>>,
   root_ofs |-> NoOfs, inline_threshold |-> InlineMax,
   err |-> NoErr, msg |-> ""]

Raise(w, class, msg) == [w EXCEPT !.err = class, !.msg = msg]

\* a, b, c are the three 32-bit words, each as 4 bytes.
make_vr(tag, flags, aux, a, b, c) == <<tag, flags>> \o LE16(aux) \o a \o b \o c

\* Appends bytes to the envelope; the offset returned is Len(w.env) before.
append_env_payload(w, bytes) == [w EXCEPT !.env = @ \o bytes]

\* Variant of arena_alloc() that never pads.
arena_alloc_packed(arena, len, align) ==
  [arena |-> arena \o Rep(len, 0), ofs |-> Len(arena)]

\* The arena after arena_alloc(len, align) (zero-filled) and the offset returned.
arena_alloc(arena, len, align) ==
  LET want_align == Max(1, align)
      aligned    == align_up(Len(arena), want_align)
  IN  [arena |-> arena \o Rep(aligned - Len(arena), 0) \o Rep(len, 0),
       ofs   |-> aligned]

write_root_vr(w, vr) ==
  IF w.root_ofs # NoOfs THEN Raise(w, SerErr, "zera: multiple root values")
  ELSE [append_env_payload(w, vr) EXCEPT !.root_ofs = Len(w.env)]

deliver_vr(w, vr) ==
  IF w.st = <<>> THEN write_root_vr(w, vr)
  ELSE LET n   == Len(w.st)
           top == w.st[n]
       IN  IF top.kind = "arr"
           THEN [w EXCEPT !.st[n].payload = @ \o vr, !.st[n].count = @ + 1]
           ELSE IF top.kind # "map"
           THEN Raise(w, SerErr, "zera: internal container stack error")
           ELSE IF top.pending = NoOfs
           THEN Raise(w, SerErr, "zera: map value without key()")
           ELSE IF top.pending + 16 > Len(top.payload)
           THEN Raise(w, SerErr, "zera: internal map patch out of bounds")
           ELSE [w EXCEPT !.st[n].payload = Patch(@, top.pending, vr),
                          !.st[n].pending = NoOfs]

Z_null(w) == deliver_vr(w, make_vr(TagNull, 0, 0, LE32(0), LE32(0), LE32(0)))

Z_boolean(w, v) ==
  deliver_vr(w, make_vr(TagBool, 0, IF v THEN 1 ELSE 0, LE32(0), LE32(0), LE32(0)))

\* v is the int64_t as a mathematical integer.
Z_int64(w, v) ==
  LET bits == u64_of_i64(v)
  IN  deliver_vr(w, make_vr(TagI64, 0, 0, Slice(bits, 0, 4), Slice(bits, 4, 4), LE32(0)))

\* v is the uint64_t as a word.
Z_uint64(w, v) ==
  deliver_vr(w, make_vr(TagU64, 0, 0, Slice(v, 0, 4), Slice(v, 4, 4), LE32(0)))

\* v is the double's IEEE-754 bit pattern as a word (memcpy).
Z_double(w, v) ==
  deliver_vr(w, make_vr(TagF64, 0, 0, Slice(v, 0, 4), Slice(v, 4, 4), LE32(0)))

\* Variant of string() that aligns the bytes in the arena at 4.
Z_string_aligned(ws, sv) ==
  IF Len(sv) <= Min(ws.inline_threshold, InlineMax)
  THEN deliver_vr(ws, <<TagString, 1>> \o LE16(Len(sv)) \o sv \o Rep(12 - Len(sv), 0))
  ELSE LET al == arena_alloc(ws.arena, Len(sv), 4)
           w1 == [ws EXCEPT !.arena = Patch(al.arena, al.ofs, sv)]
       IN  deliver_vr(w1, make_vr(TagString, 0, 0, LE32(al.ofs), LE32(Len(sv)), LE32(0)))

Z_string(w, sv) ==
  IF Len(sv) <= Min(w.inline_threshold, InlineMax)
  THEN deliver_vr(w, <<TagString, 1>> \o LE16(Len(sv)) \o sv \o Rep(12 - Len(sv), 0))
  ELSE LET al == arena_alloc(w.arena, Len(sv), 1)
           w1 == [w EXCEPT !.arena = Patch(al.arena, al.ofs, sv)]
       IN  deliver_vr(w1, make_vr(TagString, 0, 0, LE32(al.ofs), LE32(Len(sv)), LE32(0)))

emit_shape_rank1(w, dim0) == append_env_payload(w, LE32(1) \o W64(dim0))

Z_binary(w, b) ==
  LET byte_len  == Len(b)
      al        == arena_alloc(w.arena, byte_len, ArenaBaseAlign)
      w1        == [w EXCEPT !.arena = Patch(al.arena, al.ofs, b)]
      shape_ofs == Len(w1.env)
      w2        == emit_shape_rank1(w1, byte_len)
  IN  deliver_vr(w2, make_vr(TagTypedArray, 0, DTypeU8,
                             LE32(al.ofs), LE32(byte_len), LE32(shape_ofs)))

Z_begin_array(w, reserve) ==
  [w EXCEPT !.st = Append(@, [kind |-> "arr", payload |-> LE32(0), count |-> 0,
                              pending |-> NoOfs])]

Z_end_array(w) ==
  IF w.st = <<>> \/ w.st[Len(w.st)].kind # "arr"
  THEN Raise(w, SerErr, "zera: end_array outside array")
  ELSE LET ctx         == w.st[Len(w.st)]
           payload     == Patch(ctx.payload, 0, LE32(ctx.count))
           w1          == [w EXCEPT !.st = SubSeq(@, 1, Len(@) - 1)]
           payload_ofs == Len(w1.env)
           w2          == append_env_payload(w1, payload)
       IN  deliver_vr(w2, make_vr(TagArray, 0, 0, LE32(payload_ofs), LE32(0), LE32(0)))

Z_begin_map(w, reserve) ==
  [w EXCEPT !.st = Append(@, [kind |-> "map", payload |-> LE32(0), count |-> 0,
                              pending |-> NoOfs])]

Z_end_map(w) ==
  IF w.st = <<>> \/ w.st[Len(w.st)].kind # "map"
  THEN Raise(w, SerErr, "zera: end_map outside map")
  ELSE LET ctx == w.st[Len(w.st)]
       IN  IF ctx.pending # NoOfs
           THEN Raise(w, SerErr, "zera: end_map with dangling key()")
           ELSE LET payload     == Patch(ctx.payload, 0, LE32(ctx.count))
                    w1          == [w EXCEPT !.st = SubSeq(@, 1, Len(@) - 1)]
                    payload_ofs == Len(w1.env)
                    w2          == append_env_payload(w1, payload)
                IN  deliver_vr(w2, make_vr(TagObject, 0, 0, LE32(payload_ofs),
                                           LE32(0), LE32(0)))

\* A variant of key() that reserves 8 bytes for the value, not 16.
Z_key_short(w, k) ==
  IF w.st = <<>> \/ w.st[Len(w.st)].kind # "map"
  THEN Raise(w, SerErr, "zera: key() outside map")
  ELSE LET n   == Len(w.st)
           ctx == w.st[n]
       IN  IF ctx.pending # NoOfs
           THEN Raise(w, SerErr, "zera: key() called twice without value")
           ELSE LET p1 == ctx.payload \o LE16(Len(k)) \o LE16(0) \o k
                IN  [w EXCEPT !.st[n].payload = p1 \o Rep(8, 0),
                              !.st[n].pending = Len(p1),
                              !.st[n].count   = @ + 1]

\* A variant of key() that accepts a key while one is pending.
Z_key_again(w, k) ==
  IF w.st = <<>> \/ w.st[Len(w.st)].kind # "map"
  THEN Raise(w, SerErr, "zera: key() outside map")
  ELSE LET n   == Len(w.st)
           ctx == w.st[n]
           p1  == ctx.payload \o LE16(Len(k)) \o LE16(0) \o k
       IN  [w EXCEPT !.st[n].payload = p1 \o Rep(16, 0),
                     !.st[n].pending = Len(p1),
                     !.st[n].count   = @ + 1]

Z_key(w, k) ==
  IF w.st = <<>> \/ w.st[Len(w.st)].kind # "map"
  THEN Raise(w, SerErr, "zera: key() outside map")
  ELSE LET n   == Len(w.st)
           ctx == w.st[n]
       IN  IF ctx.pending # NoOfs
           THEN Raise(w, SerErr, "zera: key() called twice without value")
           ELSE IF Len(k) > 65535
           THEN Raise(w, SerErr, "zera: key too long")
           ELSE LET p1 == ctx.payload \o LE16(Len(k)) \o LE16(0) \o k
                IN  [w EXCEPT !.st[n].payload = p1 \o Rep(16, 0),
                              !.st[n].pending = Len(p1),
                              !.st[n].count   = @ + 1]

\* A variant of finish() that puts the arena right after the envelope,
\* without rounding its offset up.
Z_finish_unpadded(w) ==
  IF w.st # <<>>
  THEN [w   |-> Raise(w, SerErr, "zera: finish() called with unterminated container"),
        out |-> <<>>]
  ELSE LET w1        == IF w.root_ofs = NoOfs
                        THEN write_root_vr(w, make_vr(TagNull, 0, 0, LE32(0), LE32(0), LE32(0)))
                        ELSE w
           env_size  == Len(w1.env)
           arena_ofs == HeaderSize + env_size
           header    == LE32(Magic) \o LE16(Version) \o LE16(1) \o LE32(w1.root_ofs)
                          \o LE32(env_size) \o LE32(arena_ofs)
       IN  [w   |-> w1,
            out |-> header \o w1.env \o w1.arena]

\* finish(): the writer after the call and the bytes of the ZBuffer returned
\* (none when it throws).
Z_finish(w) ==
  IF w.st # <<>>
  THEN [w   |-> Raise(w, SerErr, "zera: finish() called with unterminated container"),
        out |-> <<>>]
  ELSE LET w1        == IF w.root_ofs = NoOfs
                        THEN write_root_vr(w, make_vr(TagNull, 0, 0, LE32(0), LE32(0), LE32(0)))
                        ELSE w
           env_size  == Len(w1.env)
           arena_ofs == align_up(HeaderSize + env_size, ArenaBaseAlign)
           header    == LE32(Magic) \o LE16(Version) \o LE16(1) \o LE32(w1.root_ofs)
                          \o LE32(env_size) \o LE32(arena_ofs)
       IN  [w   |-> w1,
            out |-> header \o w1.env \o Rep(arena_ofs - HeaderSize - env_size, 0)
                      \o w1.arena]

(***************************************************************************)
(* ZERA reader (ZeraViewBase, ZeraDeserializer).  A view is a record       *)
(* [buf, env_size, arena_ofs, vr]: env_ is buf + HeaderSize, arena_ is     *)
(* buf + arena_ofs, and vr is the offset of the ValueRef inside the        *)
(* envelope.  An accessor returns Ok(value) or Throw(class).               *)
(***************************************************************************)
parse_header(buf) ==
  IF Len(buf) < HeaderSize THEN Throw(DesErr)
  ELSE Ok([magic     |-> read_u32_le(buf, 0),
           version   |-> read_u16_le(buf, 4),
           flags     |-> read_u16_le(buf, 6),
           root_ofs  |-> read_u32_le(buf, 8),
           env_size  |-> read_u32_le(buf, 12),
           arena_ofs |-> read_u32_le(buf, 16)])

\* env_size_ - 16 is a size_t subtraction: below 16 it wraps to a huge value
\* and the last requirement holds.
init_from(buf) ==
  LET ph == parse_header(buf)
  IN  IF ~ph.ok THEN ph
      ELSE LET h == ph.val
           IN  IF h.magic # Magic \/ h.version # Version \/ h.flags # 1
               THEN Throw(DesErr)
               ELSE IF ~(/\ h.env_size <= Len(buf)
                         /\ h.root_ofs < h.env_size
                         /\ h.arena_ofs <= Len(buf)
                         /\ h.arena_ofs % ArenaBaseAlign = 0
                         /\ h.arena_ofs >= HeaderSize + h.env_size)
               THEN Throw(DesErr)
               ELSE IF ~(h.env_size < 16 \/ h.root_ofs <= h.env_size - 16)
               THEN Throw(DesErr)
               ELSE Ok([buf |-> buf, env_size |-> h.env_size,
                        arena_ofs |-> h.arena_ofs, vr |-> h.root_ofs])

arena_len(v) == Len(v.buf) - v.arena_ofs

Env(v) == Slice(v.buf, HeaderSize, v.env_size)

require_vr(v) == v.vr >= 0 /\ v.vr + 16 <= v.env_size

VR(v) == Slice(v.buf, HeaderSize + v.vr, 16)

Z_tag(v) == VR(v)[1]

Z_flags(v) == VR(v)[2]

Z_aux(v) == read_u16_le(VR(v), 2)

Z_a(v) == read_u32_le(VR(v), 4)

Z_b(v) == read_u32_le(VR(v), 8)

Z_c(v) == read_u32_le(VR(v), 12)

\* The 64-bit word  a() | b() << 32.
bits64(v) == Slice(VR(v), 4, 8)

arena_span_ok(v, ofs, len) ==
  ofs <= arena_len(v) /\ len <= arena_len(v) /\ ofs + len <= arena_len(v)

env_ptr_at(v, ofs, need) ==
  ofs <= v.env_size /\ need <= v.env_size /\ ofs + need <= v.env_size

require_flags_ok(v) ==
  IF Z_tag(v) = TagString THEN Z_flags(v) \in {0, 1} ELSE Z_flags(v) = 0

\* isNull() .. isMap(): tag() = t, after require_vr().
is_tag(v, t) == IF ~require_vr(v) THEN Throw(DesErr) ELSE Ok(Z_tag(v) = t)

isBlob(v) ==
  IF ~require_vr(v) THEN Throw(DesErr)
  ELSE Ok(Z_tag(v) = TagTypedArray /\ Z_aux(v) = DTypeU8)

Z_asBool(v) ==
  IF ~require_vr(v) \/ Z_tag(v) # TagBool \/ ~require_flags_ok(v) THEN Throw(DesErr)
  ELSE IF Z_aux(v) \notin {0, 1} THEN Throw(DesErr)
  ELSE Ok(Z_aux(v) = 1)

\* Variant of asInt64() that converts a U64 without the range check.
Z_asInt64_wrapping(v) ==
  IF ~require_vr(v) \/ Z_tag(v) \notin {TagI64, TagU64} \/ ~require_flags_ok(v)
  THEN Throw(DesErr)
  ELSE Ok(i64_of_u64(bits64(v)))

Z_asInt64(v) ==
  IF ~require_vr(v) \/ Z_tag(v) \notin {TagI64, TagU64} \/ ~require_flags_ok(v)
  THEN Throw(DesErr)
  ELSE IF Z_tag(v) = TagU64
       THEN IF ~MLe(m_of_u64(bits64(v)), IntMax(8)) THEN Throw(DesErr)
            ELSE Ok(i64_of_u64(bits64(v)))
       ELSE Ok(i64_of_u64(bits64(v)))

\* The uint64_t returned, as a mathematical integer.
Z_asUInt64(v) ==
  IF ~require_vr(v) \/ Z_tag(v) \notin {TagI64, TagU64} \/ ~require_flags_ok(v)
  THEN Throw(DesErr)
  ELSE IF Z_tag(v) = TagI64
       THEN LET si == i64_of_u64(bits64(v))
            IN  IF si.neg THEN Throw(DesErr) ELSE Ok(m_of_u64(u64_of_i64(si)))
       ELSE Ok(m_of_u64(bits64(v)))

\* The bit pattern of the double returned.
Z_asDouble(v) ==
  IF ~require_vr(v) \/ Z_tag(v) # TagF64 \/ ~require_flags_ok(v) THEN Throw(DesErr)
  ELSE Ok(bits64(v))

\* asInt8/16/32: k is the width in bytes.
Z_asIntN(v, k) ==
  LET r == Z_asInt64(v)
  IN  IF ~r.ok THEN r
      ELSE IF MLt(r.val, IntMin(k)) \/ MLt(IntMax(k), r.val) THEN Throw(DesErr)
      ELSE Ok(cast_int(r.val, k))

\* asUInt8/16/32: k is the width in bytes.
Z_asUIntN(v, k) ==
  LET r == Z_asUInt64(v)
  IN  IF ~r.ok THEN r
      ELSE IF MLt(UIntMax(k), r.val) THEN Throw(DesErr)
      ELSE Ok(cast_uint(r.val.mag, k))

\* Variant of asStringView() that reads every string from the arena.
Z_asStringView_arena(v) ==
  IF ~require_vr(v) \/ Z_tag(v) # TagString \/ ~require_flags_ok(v) THEN Throw(DesErr)
  ELSE IF ~arena_span_ok(v, Z_a(v), Z_b(v)) THEN Throw(DesErr)
       ELSE Ok(Slice(v.buf, v.arena_ofs + Z_a(v), Z_b(v)))

Z_asStringView(v) ==
  IF ~require_vr(v) \/ Z_tag(v) # TagString \/ ~require_flags_ok(v) THEN Throw(DesErr)
  ELSE IF Z_flags(v) % 2 = 1
       THEN IF Z_aux(v) > InlineMax THEN Throw(DesErr)
            ELSE Ok(Slice(VR(v), 4, Z_aux(v)))
       ELSE IF ~arena_span_ok(v, Z_a(v), Z_b(v)) THEN Throw(DesErr)
            ELSE Ok(Slice(v.buf, v.arena_ofs + Z_a(v), Z_b(v)))

\* asBlob(): the span, as its offset in the buffer and its bytes.
Z_asBlob(v) ==
  IF ~require_vr(v) \/ Z_tag(v) # TagTypedArray \/ Z_aux(v) # DTypeU8
     \/ ~require_flags_ok(v)
  THEN Throw(DesErr)
  ELSE IF ~env_ptr_at(v, Z_c(v), 4) THEN Throw(DesErr)
  ELSE LET rank == read_u32_le(Env(v), Z_c(v))
       IN  IF rank > RankMax \/ rank # 1 THEN Throw(DesErr)
           ELSE IF ~env_ptr_at(v, Z_c(v), 4 + 8 * rank) THEN Throw(DesErr)
           ELSE IF Slice(Env(v), Z_c(v) + 4, 8) # W64(Z_b(v)) THEN Throw(DesErr)
           ELSE IF ~arena_span_ok(v, Z_a(v), Z_b(v)) THEN Throw(DesErr)
           ELSE Ok([at    |-> v.arena_ofs + Z_a(v),
                    bytes |-> Slice(v.buf, v.arena_ofs + Z_a(v), Z_b(v))])

Z_arraySize(v) ==
  IF ~require_vr(v) \/ Z_tag(v) # TagArray \/ ~require_flags_ok(v) THEN Throw(DesErr)
  ELSE IF ~env_ptr_at(v, Z_a(v), 4) THEN Throw(DesErr)
  ELSE LET count == read_u32_le(Env(v), Z_a(v))
       IN  IF ~env_ptr_at(v, Z_a(v), 4 + 16 * count) THEN Throw(DesErr)
           ELSE Ok(count)

\* A variant of operator[](size_t) without the comparison of idx with the
\* count.
Z_at_unchecked(v, idx) ==
  IF ~require_vr(v) \/ Z_tag(v) # TagArray \/ ~require_flags_ok(v) THEN Throw(DesErr)
  ELSE IF ~env_ptr_at(v, Z_a(v), 4) THEN Throw(DesErr)
  ELSE IF ~env_ptr_at(v, Z_a(v) + 4 + 16 * idx, 16) THEN Throw(DesErr)
  ELSE Ok([v EXCEPT !.vr = Z_a(v) + 4 + 16 * idx])

\* operator[](size_t)
Z_at(v, idx) ==
  IF ~require_vr(v) \/ Z_tag(v) # TagArray \/ ~require_flags_ok(v) THEN Throw(DesErr)
  ELSE IF ~env_ptr_at(v, Z_a(v), 4) THEN Throw(DesErr)
  ELSE LET count    == read_u32_le(Env(v), Z_a(v))
           elem_ofs == Z_a(v) + 4 + 16 * idx
       IN  IF ~(idx < count) THEN Throw(DesErr)
           ELSE IF ~env_ptr_at(v, elem_ofs, 16) THEN Throw(DesErr)
           ELSE Ok([v EXCEPT !.vr = elem_ofs])

\* mapKeys(): the KeysView {self, p, count}; p is an envelope offset.
Z_mapKeys(v) ==
  IF ~require_vr(v) \/ Z_tag(v) # TagObject \/ ~require_flags_ok(v) THEN Throw(DesErr)
  ELSE IF ~env_ptr_at(v, Z_a(v), 4) THEN Throw(DesErr)
  ELSE IF ~env_ptr_at(v, Z_a(v) + 4, 0) THEN Throw(DesErr)
  ELSE Ok([self |-> v, p |-> Z_a(v) + 4,
           count |-> read_u32_le(Env(v), Z_a(v))])

\* KeysView::begin() and end(): iterators {self, cur, i, n}.
KV_begin(kv) == [self |-> kv.self, cur |-> kv.p, i |-> 0, n |-> kv.count]

KV_end(kv) == [self |-> kv.self, cur |-> kv.p, i |-> kv.count, n |-> kv.count]

\* Variant of operator== that compares cur as well.
KV_eq_cur(x, y) == x.self = y.self /\ x.cur = y.cur /\ x.i = y.i /\ x.n = y.n

\* operator== of two iterators: cur is not compared.
KV_eq(x, y) == x.self = y.self /\ x.i = y.i /\ x.n = y.n

\* read_u16_le(cur) of operator*() and operator++(): cur is read before any
\* check against the envelope, so the two bytes may lie after the envelope,
\* and after the buffer when nothing follows the envelope.
KV_key_len(it) ==
  IF HeaderSize + it.cur + 2 > Len(it.self.buf) THEN Throw(UBErr)
  ELSE Ok(read_u16_le(it.self.buf, HeaderSize + it.cur))

\* iterator::operator*()
KV_deref(it) ==
  IF it.i >= it.n THEN Throw(DesErr)
  ELSE Bind(KV_key_len(it), LAMBDA key_len :
         IF ~env_ptr_at(it.self, it.cur, 4 + key_len + 16) THEN Throw(DesErr)
         ELSE Ok(Slice(Env(it.self), it.cur + 4, key_len)))

\* iterator::operator++()
KV_next(it) ==
  IF it.i >= it.n THEN Ok(it)
  ELSE Bind(KV_key_len(it), LAMBDA key_len :
         IF ~env_ptr_at(it.self, it.cur + 4 + key_len + 16, 0) THEN Throw(DesErr)
         ELSE Ok([it EXCEPT !.cur = it.cur + 4 + key_len + 16, !.i = it.i + 1]))

\* for (std::string_view k : v.mapKeys()) acc.push_back(k), from iterator it on.
RECURSIVE KV_collect(_, _, _)
KV_collect(it, last, acc) ==
  IF KV_eq(it, last) THEN Ok(acc)
  ELSE LET k  == KV_deref(it)
           nx == KV_next(it)
       IN  IF ~k.ok THEN k
           ELSE IF ~nx.ok THEN nx
           ELSE KV_collect(nx.val, last, Append(acc, k.val))

Z_keys(v) ==
  LET kv == Z_mapKeys(v)
  IN  IF ~kv.ok THEN kv ELSE KV_collect(KV_begin(kv.val), KV_end(kv.val), <<>>)

\* The loop of operator[](string_view) and contains(): entry i at envelope
\* offset ofs, count entries in all; the ValueRef offset of the first match.
RECURSIVE find_key(_, _, _, _, _)
find_key(v, key, ofs, i, count) ==
  IF i >= count THEN [ok |-> TRUE, found |-> FALSE]
  ELSE IF ~env_ptr_at(v, ofs, 4) THEN Throw(DesErr)
  ELSE LET key_len == read_u16_le(Env(v), ofs)
       IN  IF ~env_ptr_at(v, ofs + 4, key_len) THEN Throw(DesErr)
           ELSE IF ~env_ptr_at(v, ofs + 4 + key_len, 16) THEN Throw(DesErr)
           ELSE IF Slice(Env(v), ofs + 4, key_len) = key
           THEN [ok |-> TRUE, found |-> TRUE, vr |-> ofs + 4 + key_len]
           ELSE IF ~env_ptr_at(v, ofs + 4 + key_len + 16, 0) THEN Throw(DesErr)
           ELSE find_key(v, key, ofs + 4 + key_len + 16, i + 1, count)

\* The loop of contains(): entry i of count at offset ofs.
RECURSIVE contains_key(_, _, _, _, _)
contains_key(v, key, ofs, i, count) ==
  IF i >= count THEN Ok(FALSE)
  ELSE IF ~env_ptr_at(v, ofs, 4) THEN Throw(DesErr)
  ELSE LET key_len == read_u16_le(Env(v), ofs)
       IN  IF ~env_ptr_at(v, ofs + 4, key_len) THEN Throw(DesErr)
           ELSE IF Slice(Env(v), ofs + 4, key_len) = key THEN Ok(TRUE)
           ELSE IF ~env_ptr_at(v, ofs + 4 + key_len + 16, 0) THEN Throw(DesErr)
           ELSE contains_key(v, key, ofs + 4 + key_len + 16, i + 1, count)

\* contains(key)
Z_contains(v, key) ==
  Bind(is_tag(v, TagObject), LAMBDA m :
    IF ~m THEN Ok(FALSE)
    ELSE IF ~require_flags_ok(v) \/ ~env_ptr_at(v, Z_a(v), 4) THEN Throw(DesErr)
    ELSE contains_key(v, key, Z_a(v) + 4, 0, read_u32_le(Env(v), Z_a(v))))

\* operator[](string_view)
Z_get(v, key) ==
  IF ~require_vr(v) \/ Z_tag(v) # TagObject \/ ~require_flags_ok(v) THEN Throw(DesErr)
  ELSE IF ~env_ptr_at(v, Z_a(v), 4) THEN Throw(DesErr)
  ELSE LET f == find_key(v, key, Z_a(v) + 4, 0, read_u32_le(Env(v), Z_a(v)))
       IN  IF ~f.ok THEN f
           ELSE IF ~f.found THEN Throw(DesErr)
           ELSE Ok([v EXCEPT !.vr = f.vr])

(***************************************************************************)
(* IEEE-754 conversions between double and float, on bit patterns.  A      *)
(* pattern is a 64-bit word holding the 8 (or 4) bytes least significant   *)
(* first.  Only zero and numbers whose exponent lies in float's normal     *)
(* range are converted, and no others are written.                         *)
(***************************************************************************)
\* The bits of the low k bytes of word x, most significant first.
BitsOf(x, k) ==
  [i \in 1..(8 * k) |->
     LET byte  == x[k - ((i - 1) \div 8)]
         shift == 7 - ((i - 1) % 8)
     IN  (byte \div (2 ^ shift)) % 2]

\* The number whose bits, most significant first, are bs (at most 30 bits).
RECURSIVE NumOf(_)
NumOf(bs) ==
  IF bs = <<>> THEN 0 ELSE 2 * NumOf(SubSeq(bs, 1, Len(bs) - 1)) + bs[Len(bs)]

\* The n bits of number v, most significant first.
BitsOfNum(v, n) == [i \in 1..n |-> (v \div (2 ^ (n - i))) % 2]

\* The word whose low k bytes have the bits bs, most significant first.
WordOfBits(bs, k) ==
  [j \in 1..8 |->
     IF j > k THEN 0 ELSE NumOf(SubSeq(bs, 8 * (k - j) + 1, 8 * (k - j) + 8))]

\* (double)(float)d == d: d is zero, or a number of float's normal range
\* whose fraction needs no more than 23 bits.
fits_float(d) ==
  LET bs == BitsOf(d, 8)
      e  == NumOf(SubSeq(bs, 2, 12))
  IN  \/ SubSeq(bs, 2, 64) = Rep(63, 0)
      \/ /\ e >= 1023 - 126 /\ e <= 1023 + 127
         /\ SubSeq(bs, 36, 64) = Rep(29, 0)

\* (float)d for such a d.
f32_of_f64(d) ==
  LET bs == BitsOf(d, 8)
      e  == NumOf(SubSeq(bs, 2, 12))
  IN  IF SubSeq(bs, 2, 64) = Rep(63, 0) THEN WordOfBits(<<bs[1]>> \o Rep(31, 0), 4)
      ELSE WordOfBits(<<bs[1]>> \o BitsOfNum(e - 896, 8) \o SubSeq(bs, 13, 35), 4)

\* (double)f for a float f that is zero or normal.
f64_of_f32(f) ==
  LET bs == BitsOf(f, 4)
      e  == NumOf(SubSeq(bs, 2, 9))
  IN  IF SubSeq(bs, 2, 32) = Rep(31, 0) THEN WordOfBits(<<bs[1]>> \o Rep(63, 0), 8)
      ELSE WordOfBits(<<bs[1]>> \o BitsOfNum(e + 896, 11) \o SubSeq(bs, 10, 32)
                        \o Rep(29, 0), 8)

(***************************************************************************)
(* MessagePack (msgpack.hpp).  The writer hands every call to msgpack-c's  *)
(* packer, which appends the MessagePack encoding of its argument in the   *)
(* shortest form; the reader is hand-written over a span of bytes, here a  *)
(* sequence: the view.  Reading outside a span is undefined behaviour and  *)
(* shows as the error class UBErr.                                         *)
(***************************************************************************)

\* The k bytes at offset at, big-endian, as a 64-bit word (mp_read_be16/32/64).
WordBE(s, at, k) == Rev(Slice(s, at, k)) \o Rep(8 - k, 0)

\* The low k bytes of word x, most significant first.
BE(x, k) == Rev(SubSeq(x, 1, k))

mp_read_be16(s, at) == 256 * s[at + 1] + s[at + 2]

mp_read_be32(s, at) ==
  16777216 * s[at + 1] + 65536 * s[at + 2] + 256 * s[at + 3] + s[at + 4]

MsgPackRoot == [codec |-> "msgpack", sbuf |-> <<>>, err |-> NoErr, msg |-> ""]

M_put(ws, bytes) == [ws EXCEPT !.sbuf = @ \o bytes]

\* msgpack_pack_uint64
pack_uint64(d) ==
  IF LtLE(d, W64(128)) THEN <<d[1]>>
  ELSE IF LtLE(d, W64(256)) THEN <<204>> \o BE(d, 1)
  ELSE IF LtLE(d, W64(65536)) THEN <<205>> \o BE(d, 2)
  ELSE IF LtLE(d, <<0, 0, 0, 0, 1, 0, 0, 0>>) THEN <<206>> \o BE(d, 4)
  ELSE <<207>> \o BE(d, 8)

\* msgpack_pack_int64
pack_int64(d) ==
  LET bits == u64_of_i64(d)
  IN  IF MLt(d, Minus(32))
      THEN IF MLt(d, Minus(32768))
           THEN IF MLt(d, IntMin(4)) THEN <<211>> \o BE(bits, 8)
                ELSE <<210>> \o BE(bits, 4)
           ELSE IF MLt(d, Minus(128)) THEN <<209>> \o BE(bits, 2)
                ELSE <<208>> \o BE(bits, 1)
      ELSE IF MLt(d, Pos(128)) THEN <<bits[1]>>
      ELSE pack_uint64(bits)

\* msgpack_pack_str, msgpack_pack_bin, msgpack_pack_array, msgpack_pack_map:
\* the header for a length or count n.
pack_str(n) ==
  IF n < 32 THEN <<160 + n>>
  ELSE IF n < 256 THEN <<217, n>>
  ELSE IF n < 65536 THEN <<218>> \o Rev(LE16(n))
  ELSE <<219>> \o Rev(LE32(n))

pack_bin(n) ==
  IF n < 256 THEN <<196, n>>
  ELSE IF n < 65536 THEN <<197>> \o Rev(LE16(n))
  ELSE <<198>> \o Rev(LE32(n))

pack_array(n) ==
  IF n < 16 THEN <<144 + n>>
  ELSE IF n < 65536 THEN <<220>> \o Rev(LE16(n))
  ELSE <<221>> \o Rev(LE32(n))

pack_map(n) ==
  IF n < 16 THEN <<128 + n>>
  ELSE IF n < 65536 THEN <<222>> \o Rev(LE16(n))
  ELSE <<223>> \o Rev(LE32(n))

M_null(ws) == M_put(ws, <<192>>)

M_boolean(ws, v) == M_put(ws, IF v THEN <<195>> ELSE <<194>>)

M_int64(ws, v) == M_put(ws, pack_int64(v))

M_uint64(ws, v) == M_put(ws, pack_uint64(v))

M_double(ws, v) == M_put(ws, <<203>> \o BE(v, 8))

M_string(ws, sv) == M_put(ws, pack_str(Len(sv)) \o sv)

M_binary(ws, bl) == M_put(ws, pack_bin(Len(bl)) \o bl)

M_begin_array(ws, n) == M_put(ws, pack_array(n))

M_end_array(ws) == ws

M_begin_map(ws, n) == M_put(ws, pack_map(n))

M_end_map(ws) == ws

M_key(ws, k) == M_string(ws, k)

\* finish(): an empty ZBuffer when nothing was written.
M_finish(ws) == [w |-> [ws EXCEPT !.sbuf = <<>>], out |-> ws.sbuf]

\* The rest of view v from offset off on: v.subspan(off).
subspan(v, off) == SubSeq(v, off + 1, Len(v))

\* mp_skip(v): the size of the element at the start of v.  mp_skip_n skips n
\* elements from offset off on and returns the offset after them.
RECURSIVE mp_skip(_), mp_skip_n(_, _, _)
mp_skip(v) ==
  IF v = <<>> THEN Throw(DesErr)
  ELSE LET m == v[1]
       IN  IF m <= 127 \/ m >= 224 \/ m \in {192, 194, 195} THEN Ok(1)
           ELSE IF m \div 32 = 5 THEN Ok(1 + (m % 32))
           ELSE IF m \div 16 = 9 THEN mp_skip_n(v, 1, m % 16)
           ELSE IF m \div 16 = 8 THEN mp_skip_n(v, 1, 2 * (m % 16))
           ELSE IF m \in {204, 208} THEN Ok(2)
           ELSE IF m \in {205, 209} THEN Ok(3)
           ELSE IF m \in {206, 210, 202} THEN Ok(5)
           ELSE IF m \in {207, 211, 203} THEN Ok(9)
           ELSE IF m \in {217, 196}
           THEN IF Len(v) < 2 THEN Throw(DesErr) ELSE Ok(2 + v[2])
           ELSE IF m \in {218, 197}
           THEN IF Len(v) < 3 THEN Throw(DesErr) ELSE Ok(3 + mp_read_be16(v, 1))
           ELSE IF m \in {219, 198}
           THEN IF Len(v) < 5 THEN Throw(DesErr) ELSE Ok(5 + mp_read_be32(v, 1))
           ELSE IF m = 220
           THEN IF Len(v) < 3 THEN Throw(DesErr)
                ELSE mp_skip_n(v, 3, mp_read_be16(v, 1))
           ELSE IF m = 221
           THEN IF Len(v) < 5 THEN Throw(DesErr)
                ELSE mp_skip_n(v, 5, mp_read_be32(v, 1))
           ELSE IF m = 222
           THEN IF Len(v) < 3 THEN Throw(DesErr)
                ELSE mp_skip_n(v, 3, 2 * mp_read_be16(v, 1))
           ELSE IF m = 223
           THEN IF Len(v) < 5 THEN Throw(DesErr)
                ELSE mp_skip_n(v, 5, 2 * mp_read_be32(v, 1))
           ELSE Throw(DesErr)

mp_skip_n(v, off, n) ==
  IF n = 0 THEN Ok(off)
  ELSE IF off > Len(v) THEN Throw(UBErr)
  ELSE LET s == mp_skip(subspan(v, off))
       IN  IF ~s.ok THEN s ELSE mp_skip_n(v, off + s.val, n - 1)

\* MsgPackDeserializer: predicates on the view.
M_isNull(v) == v # <<>> /\ v[1] = 192

M_isBool(v) == v # <<>> /\ v[1] \in {194, 195}

M_isInt(v) == v # <<>> /\ (v[1] <= 127 \/ v[1] >= 224 \/ v[1] \in {208, 209, 210, 211})

M_isUInt(v) == v # <<>> /\ (v[1] <= 127 \/ v[1] \in {204, 205, 206, 207})

M_isFloat(v) == v # <<>> /\ v[1] \in {202, 203}

M_isString(v) == v # <<>> /\ (v[1] \div 32 = 5 \/ v[1] \in {217, 218, 219})

M_isBlob(v) == v # <<>> /\ v[1] \in {196, 197, 198}

M_isArray(v) == v # <<>> /\ (v[1] \div 16 = 9 \/ v[1] \in {220, 221})

M_isMap(v) == v # <<>> /\ (v[1] \div 16 = 8 \/ v[1] \in {222, 223})

\* The k-byte big-endian two's complement number at offset 1, as an int64_t.
M_signed(v, k) == cast_int(MI(FALSE, WordBE(v, 1, k)), k)

\* asInt64(): the uint64_t read under marker 0xcf is converted to the
\* int64_t returned, modulo 2^64.
M_asInt64(v) ==
  IF v = <<>> THEN Throw(DesErr)
  ELSE LET m == v[1]
       IN  IF m <= 127 THEN Ok(Pos(m))
           ELSE IF m >= 224 THEN Ok(Minus(256 - m))
           ELSE IF m \in {208, 204}
           THEN IF Len(v) < 2 THEN Throw(DesErr)
                ELSE Ok(IF m = 208 THEN M_signed(v, 1) ELSE MI(FALSE, WordBE(v, 1, 1)))
           ELSE IF m \in {209, 205}
           THEN IF Len(v) < 3 THEN Throw(DesErr)
                ELSE Ok(IF m = 209 THEN M_signed(v, 2) ELSE MI(FALSE, WordBE(v, 1, 2)))
           ELSE IF m \in {210, 206}
           THEN IF Len(v) < 5 THEN Throw(DesErr)
                ELSE Ok(IF m = 210 THEN M_signed(v, 4) ELSE MI(FALSE, WordBE(v, 1, 4)))
           ELSE IF m \in {211, 207}
           THEN IF Len(v) < 9 THEN Throw(DesErr)
                ELSE Ok(i64_of_u64(WordBE(v, 1, 8)))
           ELSE Throw(DesErr)

\* asUInt64(): the uint64_t returned, as a mathematical integer.
M_asUInt64(v) ==
  IF v = <<>> THEN Throw(DesErr)
  ELSE LET m == v[1]
       IN  IF m <= 127 THEN Ok(Pos(m))
           ELSE IF m = 204
           THEN IF Len(v) < 2 THEN Throw(DesErr) ELSE Ok(MI(FALSE, WordBE(v, 1, 1)))
           ELSE IF m = 205
           THEN IF Len(v) < 3 THEN Throw(DesErr) ELSE Ok(MI(FALSE, WordBE(v, 1, 2)))
           ELSE IF m = 206
           THEN IF Len(v) < 5 THEN Throw(DesErr) ELSE Ok(MI(FALSE, WordBE(v, 1, 4)))
           ELSE IF m = 207
           THEN IF Len(v) < 9 THEN Throw(DesErr) ELSE Ok(MI(FALSE, WordBE(v, 1, 8)))
           ELSE LET r == M_asInt64(v)
                IN  IF ~r.ok THEN r ELSE Ok(m_of_u64(u64_of_i64(r.val)))

\* asInt8/16/32 (k = 1, 2, 4) and asInt64 (k = 8).
M_asIntN(v, k) ==
  LET r == M_asInt64(v)
  IN  IF k = 8 \/ ~r.ok THEN r
      ELSE IF MLt(r.val, IntMin(k)) \/ MLt(IntMax(k), r.val) THEN Throw(DesErr)
      ELSE Ok(cast_int(r.val, k))

\* asUInt8/16/32 (k = 1, 2, 4) and asUInt64 (k = 8).
M_asUIntN(v, k) ==
  LET r == M_asUInt64(v)
  IN  IF k = 8 \/ ~r.ok THEN r
      ELSE IF MLt(UIntMax(k), r.val) THEN Throw(DesErr)
      ELSE Ok(cast_uint(r.val.mag, k))

\* A variant of asBool() that answers false for a value that is not a bool.
M_asBool_default(v) == Ok(v # <<>> /\ v[1] = 195)

M_asBool(v) == IF ~M_isBool(v) THEN Throw(DesErr) ELSE Ok(v[1] = 195)

\* asDouble(): a float32 (marker 0xca) or a float64 (0xcb).
M_asDouble(v) ==
  IF ~M_isFloat(v) THEN Throw(DesErr)
  ELSE IF v[1] = 202
  THEN IF Len(v) < 5 THEN Throw(DesErr) ELSE Ok(f64_of_f32(WordBE(v, 1, 4)))
  ELSE IF Len(v) < 9 THEN Throw(DesErr) ELSE Ok(WordBE(v, 1, 8))

\* str_info, bin_info, arr_info, map_info: the header's length or count n
\* and the payload offset off.  The header bytes are read unchecked.
mp_info(v, fix, base, m8, m16, m32) ==
  IF v = <<>> THEN Throw(UBErr)
  ELSE LET m == v[1]
       IN  IF m >= base /\ m < base + fix THEN Ok([n |-> m - base, off |-> 1])
           ELSE IF m = m8
           THEN IF Len(v) < 2 THEN Throw(UBErr) ELSE Ok([n |-> v[2], off |-> 2])
           ELSE IF m = m16
           THEN IF Len(v) < 3 THEN Throw(UBErr)
                ELSE Ok([n |-> mp_read_be16(v, 1), off |-> 3])
           ELSE IF m = m32
           THEN IF Len(v) < 5 THEN Throw(UBErr)
                ELSE Ok([n |-> mp_read_be32(v, 1), off |-> 5])
           ELSE Throw(DesErr)

\* No marker: bin has no 1-byte form with the length in the marker, arrays
\* and maps have no 8-bit length form.
NoMarker == 256

str_info(v) == mp_info(v, 32, 160, 217, 218, 219)

bin_info(v) == mp_info(v, 0, 196, 196, 197, 198)

arr_info(v) == mp_info(v, 16, 144, NoMarker, 220, 221)

map_info(v) == mp_info(v, 16, 128, NoMarker, 222, 223)

\* asStringView() and asBlob(): the n bytes after the header.
M_bytes(v, info) ==
  IF ~info.ok THEN info
  ELSE IF info.val.off + info.val.n > Len(v) THEN Throw(UBErr)
  ELSE Ok(Slice(v, info.val.off, info.val.n))

M_asStringView(v) == M_bytes(v, str_info(v))

M_asBlob(v) == M_bytes(v, bin_info(v))

M_arraySize(v) == LET i == arr_info(v) IN IF ~i.ok THEN i ELSE Ok(i.val.n)

\* The element of size mp_skip(v.subspan(off)) at offset off: subspan(off, sz).
M_sub(v, off) ==
  IF off > Len(v) THEN Throw(UBErr)
  ELSE LET s == mp_skip(subspan(v, off))
       IN  IF ~s.ok THEN s
           ELSE IF off + s.val > Len(v) THEN Throw(UBErr)
           ELSE Ok(Slice(v, off, s.val))

\* operator[](size_t)
M_at(v, idx) ==
  LET i == arr_info(v)
  IN  IF ~i.ok THEN i
      ELSE IF idx >= i.val.n THEN Throw(DesErr)
      ELSE LET off == mp_skip_n(v, i.val.off, idx)
           IN  IF ~off.ok THEN off ELSE M_sub(v, off.val)

\* The loop of operator[](string_view): entry i of n at offset off.
RECURSIVE M_find(_, _, _, _, _)
M_find(v, key, off, i, n) ==
  IF i >= n THEN Throw(DesErr)
  ELSE LET kd == M_sub(v, off)
       IN  IF ~kd.ok THEN kd
           ELSE LET vd == M_sub(v, off + Len(kd.val))
                IN  IF ~vd.ok THEN vd
                    ELSE IF M_isString(kd.val) /\ M_asStringView(kd.val).ok
                            /\ M_asStringView(kd.val).val = key
                    THEN vd
                    ELSE M_find(v, key, off + Len(kd.val) + Len(vd.val), i + 1, n)

\* The loop of contains(): entry i of n at offset off.
RECURSIVE M_has(_, _, _, _, _)
M_has(v, key, off, i, n) ==
  IF i >= n THEN Ok(FALSE)
  ELSE Bind(M_sub(v, off), LAMBDA kd :
       Bind(M_sub(v, off + Len(kd)), LAMBDA vd :
         IF M_isString(kd) /\ M_asStringView(kd).ok /\ M_asStringView(kd).val = key
         THEN Ok(TRUE)
         ELSE M_has(v, key, off + Len(kd) + Len(vd), i + 1, n)))

\* contains(key)
M_contains(v, key) ==
  IF ~M_isMap(v) THEN Ok(FALSE)
  ELSE Bind(map_info(v), LAMBDA i : M_has(v, key, i.off, 0, i.n))

\* operator[](string_view)
M_get(v, key) ==
  IF ~M_isMap(v) THEN Throw(DesErr)
  ELSE LET i == map_info(v)
       IN  IF ~i.ok THEN i ELSE M_find(v, key, i.val.off, 0, i.val.n)

\* for (std::string_view k : v.mapKeys()) acc.push_back(k): the iterator is
\* at entry i and offset off; end() is {count, offset after all entries}.
RECURSIVE M_collect(_, _, _, _, _)
M_collect(v, i, off, last, acc) ==
  IF i = last.i /\ off = last.off THEN Ok(acc)
  ELSE LET kd == M_sub(v, off)
       IN  IF ~kd.ok THEN kd
           ELSE LET k  == M_asStringView(kd.val)
                    vd == M_sub(v, off + Len(kd.val))
                IN  IF ~k.ok THEN k
                    ELSE IF ~vd.ok THEN vd
                    ELSE M_collect(v, i + 1, off + Len(kd.val) + Len(vd.val), last,
                                   Append(acc, k.val))

M_keys(v) ==
  IF ~M_isMap(v) THEN Throw(DesErr)
  ELSE LET i == map_info(v)
       IN  IF ~i.ok THEN i
           ELSE LET e == mp_skip_n(v, i.val.off, 2 * i.val.n)
                IN  IF ~e.ok THEN e
                    ELSE M_collect(v, 0, i.val.off, [i |-> i.val.n, off |-> e.val], <<>>)

(***************************************************************************)
(* CBOR (cbor.hpp).  The writer hands every call to jsoncons' CBOR         *)
(* encoder, which appends the item in its shortest head form, containers   *)
(* with a definite length; the reader is hand-written: a view is           *)
(* [buf, pos].  A head's val is a 64-bit word.                             *)
(***************************************************************************)
CborRoot ==
  [codec |-> "cbor", out_ |-> <<>>, wrote_root |-> FALSE, err |-> NoErr, msg |-> ""]

\* Word x is below 2^24, and then its value.
IsSmall(x) == \A i \in 4..8 : x[i] = 0

ToInt(x) == x[1] + 256 * x[2] + 65536 * x[3]

\* The head of major type major with argument val (a word).
cbor_head(major, val) ==
  IF LtLE(val, W64(24)) THEN <<32 * major + val[1]>>
  ELSE IF LtLE(val, W64(256)) THEN <<32 * major + 24>> \o BE(val, 1)
  ELSE IF LtLE(val, W64(65536)) THEN <<32 * major + 25>> \o BE(val, 2)
  ELSE IF LtLE(val, <<0, 0, 0, 0, 1, 0, 0, 0>>) THEN <<32 * major + 26>> \o BE(val, 4)
  ELSE <<32 * major + 27>> \o BE(val, 8)

C_put(ws, bytes) == [ws EXCEPT !.out_ = @ \o bytes, !.wrote_root = TRUE]

C_null(ws) == C_put(ws, <<246>>)

C_boolean(ws, v) == C_put(ws, IF v THEN <<245>> ELSE <<244>>)

\* int64_value: major 0 with v, or major 1 with -1 - v.
C_int64(ws, v) ==
  C_put(ws, IF v.neg THEN cbor_head(1, Not64(u64_of_i64(v))) ELSE cbor_head(0, v.mag))

C_uint64(ws, v) == C_put(ws, cbor_head(0, v))

\* double_value: a float when the double is one exactly.
C_double(ws, v) ==
  C_put(ws, IF fits_float(v) THEN <<250>> \o BE(f32_of_f64(v), 4)
            ELSE <<251>> \o BE(v, 8))

C_string(ws, sv) == C_put(ws, cbor_head(3, W64(Len(sv))) \o sv)

C_binary(ws, bl) == C_put(ws, cbor_head(2, W64(Len(bl))) \o bl)

C_begin_array(ws, n) == C_put(ws, cbor_head(4, W64(n)))

C_end_array(ws) == ws

C_begin_map(ws, n) == C_put(ws, cbor_head(5, W64(n)))

C_end_map(ws) == ws

\* enc.key(k) leaves wrote_root as it is.
C_key(ws, k) == [ws EXCEPT !.out_ = @ \o cbor_head(3, W64(Len(k))) \o k]

C_finish(ws) ==
  LET w1 == IF ~ws.wrote_root THEN C_null(ws) ELSE ws
  IN  [w |-> [w1 EXCEPT !.out_ = <<>>], out |-> w1.out_]

\* get_be(&buf_[p + 1], n) as a word.
get_be(buf, p, n) == WordBE(buf, p + 1, n)

\* read_head(p)
read_head(buf, p) ==
  IF ~(p < Len(buf)) THEN Throw(DesErr)
  ELSE LET bb    == buf[p + 1]
           major == bb \div 32
           addl  == bb % 32
           H(val, hlen, indef) ==
             Ok([major |-> major, addl |-> addl, val |-> val, hlen |-> hlen,
                 indefinite |-> indef])
       IN  IF major = 7
           THEN IF addl = 25 THEN H(W64(2), 1, FALSE)
                ELSE IF addl = 26 THEN H(W64(4), 1, FALSE)
                ELSE IF addl = 27 THEN H(W64(8), 1, FALSE)
                ELSE IF addl = 24
                THEN IF p + 2 <= Len(buf) THEN H(Zero64, 2, FALSE) ELSE Throw(DesErr)
                ELSE IF addl = 31 THEN H(Zero64, 1, TRUE)
                ELSE H(Zero64, 1, FALSE)
           ELSE IF addl < 24 THEN H(W64(addl), 1, FALSE)
           ELSE IF addl = 24
           THEN IF p + 2 <= Len(buf) THEN H(get_be(buf, p, 1), 2, FALSE) ELSE Throw(DesErr)
           ELSE IF addl = 25
           THEN IF p + 3 <= Len(buf) THEN H(get_be(buf, p, 2), 3, FALSE) ELSE Throw(DesErr)
           ELSE IF addl = 26
           THEN IF p + 5 <= Len(buf) THEN H(get_be(buf, p, 4), 5, FALSE) ELSE Throw(DesErr)
           ELSE IF addl = 27
           THEN IF p + 9 <= Len(buf) THEN H(get_be(buf, p, 8), 9, FALSE) ELSE Throw(DesErr)
           ELSE IF addl = 31 THEN H(Zero64, 1, TRUE)
           ELSE Throw(DesErr)

\* ensure(q + val <= buf_.size()): the sum is taken modulo 2^64.
span_fits(buf, q, val) == LeLE(AddLE(W64(q), val, 0), W64(Len(buf)))

\* q + static_cast<size_t>(val), modulo 2^64, when span_fits holds.
span_end(q, val) == ToInt(AddLE(W64(q), val, 0))

\* A loop  for (i = 0; i < val; ++i) q = skip(q)  and a loop that runs
\* until the break byte end when skip() throws or the count is reached.
\* skip() of a string whose length wraps q + val around 2^64 can return a
\* position at or before the one it started at, so such a loop can come
\* back to a position it has left; a loop of 2^24 or more rounds that has
\* taken more rounds than the buffer has positions, and a loop until the
\* break byte that has, repeats a position and is taken not to end.
Hang == "does not terminate"

\* skip(p): the position after the item at p.  skip_n runs skip n times
\* (forever: the count is 2^24 or more), skip_indef until the break byte
\* (per items a round), skip_chunks over the chunks of an indefinite string.
RECURSIVE skip(_, _), skip_n(_, _, _, _), skip_indef(_, _, _, _), skip_chunks(_, _, _, _)
skip(buf, p) ==
  Bind(read_head(buf, p), LAMBDA h :
    LET q     == p + h.hlen
        small == IsSmall(h.val)
        n     == IF small THEN ToInt(h.val) ELSE Len(buf) + 1
    IN  CASE h.major \in {0, 1} -> Ok(q)
          [] h.major \in {2, 3} ->
               IF ~h.indefinite
               THEN IF span_fits(buf, q, h.val) THEN Ok(span_end(q, h.val))
                    ELSE Throw(DesErr)
               ELSE skip_chunks(buf, q, h.major, Len(buf))
          [] h.major = 4 ->
               IF ~h.indefinite THEN skip_n(buf, q, n, ~small)
               ELSE skip_indef(buf, q, 1, Len(buf))
          [] h.major = 5 ->
               IF ~h.indefinite THEN skip_n(buf, q, 2 * n, ~small)
               ELSE skip_indef(buf, q, 2, Len(buf))
          [] h.major = 6 -> skip(buf, q)
          [] h.major = 7 ->
               IF h.addl \in {25, 26, 27}
               THEN IF q + ToInt(h.val) <= Len(buf) THEN Ok(q + ToInt(h.val))
                    ELSE Throw(DesErr)
               ELSE IF h.addl = 24
               THEN IF q + 1 <= Len(buf) THEN Ok(q + 1) ELSE Throw(DesErr)
               ELSE Ok(q))

skip_n(buf, q, n, forever) ==
  IF n = 0 THEN IF forever THEN Throw(Hang) ELSE Ok(q)
  ELSE Bind(skip(buf, q), LAMBDA q1 : skip_n(buf, q1, n - 1, forever))

skip_indef(buf, q, per, fuel) ==
  IF ~(q < Len(buf)) THEN Throw(DesErr)
  ELSE IF buf[q + 1] = 255 THEN Ok(q + 1)
  ELSE Bind(skip_n(buf, q, per, FALSE), LAMBDA q1 :
         IF fuel = 0 THEN Throw(Hang) ELSE skip_indef(buf, q1, per, fuel - 1))

skip_chunks(buf, q, major, fuel) ==
  IF ~(q < Len(buf)) THEN Throw(DesErr)
  ELSE IF buf[q + 1] = 255 THEN Ok(q + 1)
  ELSE Bind(read_head(buf, q), LAMBDA ch :
         IF ch.major # major \/ ch.indefinite THEN Throw(DesErr)
         ELSE With(AddLE(W64(q + ch.hlen), ch.val, 0), LAMBDA q1 :
                IF ~IsSmall(q1) THEN Throw(DesErr)
                ELSE IF fuel = 0 THEN Throw(Hang)
                ELSE skip_chunks(buf, ToInt(q1), major, fuel - 1)))

\* CborDeserializer(buf, start)
CborView(buf, pos) == [buf |-> buf, pos |-> pos]

C_head(v) == read_head(v.buf, v.pos)

\* A predicate on the head; head() may throw.
C_test(v, T(_)) == Bind(C_head(v), LAMBDA h : Ok(T(h)))

C_isNull(v) == C_test(v, LAMBDA h : h.major = 7 /\ h.addl = 22)

C_isBool(v) == C_test(v, LAMBDA h : h.major = 7 /\ h.addl \in {20, 21})

C_isInt(v) == C_test(v, LAMBDA h : h.major \in {0, 1})

C_isUInt(v) == C_test(v, LAMBDA h : h.major = 0)

C_isFloat(v) == C_test(v, LAMBDA h : h.major = 7 /\ h.addl \in {25, 26, 27})

C_isString(v) == C_test(v, LAMBDA h : h.major = 3)

C_isBlob(v) == C_test(v, LAMBDA h : h.major = 2)

C_isMap(v) == C_test(v, LAMBDA h : h.major = 5)

C_isArray(v) == C_test(v, LAMBDA h : h.major = 4)

\* asInt64(): major 0 is static_cast<int64_t>(h.val); major 1 is -1 - val
\* and refused when val exceeds INT64_MAX.
C_asInt64(v) ==
  LET hr == C_head(v)
  IN  IF ~hr.ok THEN hr
      ELSE LET h == hr.val
           IN  IF h.major \notin {0, 1} THEN Throw(DesErr)
               ELSE IF h.major = 0 THEN Ok(i64_of_u64(h.val))
               ELSE IF h.val[8] >= 128 THEN Throw(DesErr)
               ELSE Ok(MI(TRUE, AddLE(h.val, Zero64, 1)))

C_asUInt64(v) ==
  LET hr == C_head(v)
  IN  IF ~hr.ok THEN hr
      ELSE IF hr.val.major # 0 THEN Throw(DesErr)
      ELSE Ok(m_of_u64(hr.val.val))

\* asInt8/16/32 (k = 1, 2, 4) and asInt64 (k = 8).
C_asIntN(v, k) ==
  LET r == C_asInt64(v)
  IN  IF k = 8 \/ ~r.ok THEN r
      ELSE IF MLt(r.val, IntMin(k)) \/ MLt(IntMax(k), r.val) THEN Throw(DesErr)
      ELSE Ok(cast_int(r.val, k))

\* asUInt8/16/32 (k = 1, 2, 4) and asUInt64 (k = 8).
C_asUIntN(v, k) ==
  LET r == C_asUInt64(v)
  IN  IF k = 8 \/ ~r.ok THEN r
      ELSE IF MLt(UIntMax(k), r.val) THEN Throw(DesErr)
      ELSE Ok(cast_uint(r.val.mag, k))

C_asBool(v) ==
  LET hr == C_head(v)
  IN  IF ~hr.ok THEN hr
      ELSE IF ~(hr.val.major = 7 /\ hr.val.addl \in {20, 21}) THEN Throw(DesErr)
      ELSE Ok(hr.val.addl = 21)

\* decode_f16(h): h a word holding the two bytes.
decode_f16(h) ==
  LET bs   == BitsOf(h, 2)
      e    == NumOf(SubSeq(bs, 2, 6))
      frac == SubSeq(bs, 7, 16)
      lead == CHOOSE j \in 1..10 : frac[j] = 1 /\ \A i \in 1..(j - 1) : frac[i] = 0
  IN  IF e = 0
      THEN IF frac = Rep(10, 0) THEN WordOfBits(<<bs[1]>> \o Rep(63, 0), 8)
           ELSE WordOfBits(<<bs[1]>> \o BitsOfNum(1023 - 14 - lead, 11)
                             \o SubSeq(frac, lead + 1, 10) \o Rep(42 + lead, 0), 8)
      ELSE IF e = 31
      THEN IF frac # Rep(10, 0) THEN WordOfBits(<<0>> \o Rep(12, 1) \o Rep(51, 0), 8)
           ELSE WordOfBits(<<bs[1]>> \o Rep(11, 1) \o Rep(52, 0), 8)
      ELSE WordOfBits(<<bs[1]>> \o BitsOfNum(e + 1008, 11) \o frac \o Rep(42, 0), 8)

\* asDouble(): the bytes after the head are read without a bounds check.
C_asDouble(v) ==
  LET hr == C_head(v)
  IN  IF ~hr.ok THEN hr
      ELSE LET h == hr.val
               q == v.pos + h.hlen
               n == IF h.addl = 25 THEN 2 ELSE IF h.addl = 26 THEN 4 ELSE 8
           IN  IF ~(h.major = 7 /\ h.addl \in {25, 26, 27}) THEN Throw(DesErr)
               ELSE IF q + n > Len(v.buf) THEN Throw(UBErr)
               ELSE IF h.addl = 25 THEN Ok(decode_f16(WordBE(v.buf, q, 2)))
               ELSE IF h.addl = 26 THEN Ok(f64_of_f32(WordBE(v.buf, q, 4)))
               ELSE Ok(WordBE(v.buf, q, 8))

\* The val bytes at q of a definite string: ensure(q + val <= size), the
\* sum modulo 2^64, and then val bytes are taken from &buf_[q].
C_span(buf, q, val) ==
  IF ~span_fits(buf, q, val) THEN Throw(DesErr)
  ELSE IF ~IsSmall(val) \/ q + ToInt(val) > Len(buf) THEN Throw(UBErr)
  ELSE Ok(Slice(buf, q, ToInt(val)))

\* The chunk loop of asString().
RECURSIVE C_chunks(_, _, _)
C_chunks(buf, q, acc) ==
  IF ~(q < Len(buf)) THEN Throw(DesErr)
  ELSE IF buf[q + 1] = 255 THEN Ok(acc)
  ELSE Bind(read_head(buf, q), LAMBDA ch :
         IF ~(ch.major = 3 /\ ~ch.indefinite) THEN Throw(DesErr)
         ELSE Bind(C_span(buf, q + ch.hlen, ch.val), LAMBDA sp :
                C_chunks(buf, q + ch.hlen + Len(sp), acc \o sp)))

C_asString(v) ==
  Bind(C_head(v), LAMBDA h :
    IF h.major # 3 THEN Throw(DesErr)
    ELSE IF ~h.indefinite THEN C_span(v.buf, v.pos + h.hlen, h.val)
    ELSE C_chunks(v.buf, v.pos + h.hlen, <<>>))

\* asStringView() (major 3) and asBlob() (major 2).
C_bytes(v, major) ==
  Bind(C_head(v), LAMBDA h :
    IF h.major # major \/ h.indefinite THEN Throw(DesErr)
    ELSE C_span(v.buf, v.pos + h.hlen, h.val))

C_asStringView(v) == C_bytes(v, 3)

C_asBlob(v) == C_bytes(v, 2)

\* The loops of operator[](string_view): n rounds are left of a definite
\* map (forever: of 2^24 or more), of an indefinite one n is the number of
\* rounds after which a position has been repeated.
RECURSIVE C_find(_, _, _, _, _, _)
C_find(buf, key, q, indef, n, forever) ==
  IF ~indef /\ n = 0 THEN IF forever THEN Throw(Hang) ELSE Throw(DesErr)
  ELSE IF indef /\ ~(q < Len(buf)) THEN Throw(DesErr)
  ELSE IF indef /\ buf[q + 1] = 255 THEN Throw(DesErr)
  ELSE IF indef /\ n = 0 THEN Throw(Hang)
  ELSE Bind(C_asString(CborView(buf, q)), LAMBDA k :
       Bind(skip(buf, q), LAMBDA q1 :
         IF k = key THEN Ok(CborView(buf, q1))
         ELSE Bind(skip(buf, q1), LAMBDA q2 :
                C_find(buf, key, q2, indef, n - 1, forever))))

\* The key contains() compares in a definite map: a definite text key is
\* viewed in place, unchecked; any other key goes through asString().
C_key_view(buf, q) ==
  Bind(read_head(buf, q), LAMBDA kh :
    IF kh.major = 3 /\ ~kh.indefinite
    THEN IF IsSmall(kh.val) /\ q + kh.hlen + ToInt(kh.val) <= Len(buf)
         THEN Ok(Slice(buf, q + kh.hlen, ToInt(kh.val)))
         ELSE Throw(UBErr)
    ELSE C_asString(CborView(buf, q)))

\* The loops of contains(), with n and forever as in C_find.
RECURSIVE C_has(_, _, _, _, _, _)
C_has(buf, key, q, indef, n, forever) ==
  IF ~indef /\ n = 0 THEN IF forever THEN Throw(Hang) ELSE Ok(FALSE)
  ELSE IF indef /\ ~(q < Len(buf)) THEN Throw(DesErr)
  ELSE IF indef /\ buf[q + 1] = 255 THEN Ok(FALSE)
  ELSE IF indef /\ n = 0 THEN Throw(Hang)
  ELSE IF ~indef
  THEN Bind(C_key_view(buf, q), LAMBDA k :
         IF k = key THEN Ok(TRUE)
         ELSE Bind(skip(buf, q), LAMBDA q1 :
              Bind(skip(buf, q1), LAMBDA q2 :
                C_has(buf, key, q2, indef, n - 1, forever))))
  ELSE Bind(C_asString(CborView(buf, q)), LAMBDA k :
       Bind(skip(buf, q), LAMBDA q1 :
         IF k = key THEN Ok(TRUE)
         ELSE Bind(skip(buf, q1), LAMBDA q2 :
                C_has(buf, key, q2, indef, n - 1, forever))))

\* contains(key)
C_contains(v, key) ==
  Bind(C_head(v), LAMBDA h :
    IF h.major # 5 THEN Ok(FALSE)
    ELSE IF h.indefinite \/ ~IsSmall(h.val)
    THEN C_has(v.buf, key, v.pos + h.hlen, h.indefinite, Len(v.buf) + 1, ~h.indefinite)
    ELSE C_has(v.buf, key, v.pos + h.hlen, FALSE, ToInt(h.val), FALSE))

\* operator[](string_view)
C_get(v, key) ==
  Bind(C_head(v), LAMBDA h :
    IF h.major # 5 THEN Throw(DesErr)
    ELSE IF h.indefinite \/ ~IsSmall(h.val)
    THEN C_find(v.buf, key, v.pos + h.hlen, h.indefinite, Len(v.buf) + 1, ~h.indefinite)
    ELSE C_find(v.buf, key, v.pos + h.hlen, FALSE, ToInt(h.val), FALSE))

\* The counting loop of arraySize() for an indefinite array.
RECURSIVE C_count(_, _, _, _)
C_count(buf, q, c, fuel) ==
  IF ~(q < Len(buf)) THEN Throw(DesErr)
  ELSE IF buf[q + 1] = 255 THEN Ok(c)
  ELSE Bind(skip(buf, q), LAMBDA q1 :
         IF fuel = 0 THEN Throw(Hang) ELSE C_count(buf, q1, c + 1, fuel - 1))

\* A count of 2^24 or more is reported as 2^24.
HugeCount == 16777216

C_arraySize(v) ==
  Bind(C_head(v), LAMBDA h :
    IF h.major # 4 THEN Throw(DesErr)
    ELSE IF ~h.indefinite THEN Ok(IF IsSmall(h.val) THEN ToInt(h.val) ELSE HugeCount)
    ELSE C_count(v.buf, v.pos + h.hlen, 0, Len(v.buf)))

\* The loop of operator[](size_t) for an indefinite array.
RECURSIVE C_nth(_, _, _, _)
C_nth(buf, q, i, idx) ==
  IF ~(q < Len(buf)) THEN Throw(DesErr)
  ELSE IF buf[q + 1] = 255 THEN Throw(DesErr)
  ELSE IF i = idx THEN Ok(CborView(buf, q))
  ELSE Bind(skip(buf, q), LAMBDA q1 : C_nth(buf, q1, i + 1, idx))

\* operator[](size_t)
C_at(v, idx) ==
  Bind(C_head(v), LAMBDA h :
    IF h.major # 4 THEN Throw(DesErr)
    ELSE IF h.indefinite THEN C_nth(v.buf, v.pos + h.hlen, 0, idx)
    ELSE IF ~LtLE(W64(idx), h.val) THEN Throw(DesErr)
    ELSE Bind(skip_n(v.buf, v.pos + h.hlen, idx, FALSE), LAMBDA q1 :
           Ok(CborView(v.buf, q1))))

(***************************************************************************)
(* CBOR: KeysView.  Its iterator has a read_head and a skip of its own,    *)
(* which read the buffer without bounds checks and add lengths to the      *)
(* cursor modulo 2^64: a cursor is a 64-bit word here, and a read outside  *)
(* the buffer is undefined behaviour.                                      *)
(***************************************************************************)
AddW(q, n) == AddLE(q, W64(n), 0)

\* The n bytes at cursor q lie in the buffer.
InBuf(b, q, n) == IsSmall(q) /\ ToInt(q) + n <= Len(b)

\* iterator::read_head(b, p)
K_read_head(b, p) ==
  IF ~InBuf(b, p, 1) THEN Throw(UBErr)
  ELSE LET bb    == b[ToInt(p) + 1]
           major == bb \div 32
           addl  == bb % 32
           n     == CASE addl = 24 -> 1 [] addl = 25 -> 2 [] addl = 26 -> 4
                      [] addl = 27 -> 8 [] OTHER -> 0
           H(val, hlen, indef) ==
             Ok([major |-> major, addl |-> addl, val |-> val, hlen |-> hlen,
                 indefinite |-> indef])
       IN  IF major = 7
           THEN H(IF addl \in {25, 26, 27} THEN W64(n) ELSE Zero64,
                  IF addl = 24 THEN 2 ELSE 1, addl = 31)
           ELSE IF addl < 24 THEN H(W64(addl), 1, FALSE)
           ELSE IF addl \in 24..27
           THEN IF InBuf(b, p, 1 + n) THEN H(get_be(b, ToInt(p), n), 1 + n, FALSE)
                ELSE Throw(UBErr)
           ELSE H(Zero64, 1, addl = 31)

\* iterator::skip(b, p), with the loops of skip() above.
RECURSIVE K_skip(_, _), K_skip_n(_, _, _, _), K_skip_indef(_, _, _, _), K_skip_chunks(_, _, _)
K_skip(b, p) ==
  Bind(K_read_head(b, p), LAMBDA h :
    LET q     == AddW(p, h.hlen)
        small == IsSmall(h.val)
        n     == IF small THEN ToInt(h.val) ELSE Len(b) + 1
    IN  CASE h.major \in {0, 1} -> Ok(q)
          [] h.major \in {2, 3} ->
               IF ~h.indefinite THEN Ok(AddLE(q, h.val, 0))
               ELSE K_skip_chunks(b, q, Len(b))
          [] h.major = 4 ->
               IF ~h.indefinite THEN K_skip_n(b, q, n, ~small)
               ELSE K_skip_indef(b, q, 1, Len(b))
          [] h.major = 5 ->
               IF ~h.indefinite THEN K_skip_n(b, q, 2 * n, ~small)
               ELSE K_skip_indef(b, q, 2, Len(b))
          [] h.major = 6 -> K_skip(b, q)
          [] h.major = 7 ->
               IF h.addl \in {25, 26, 27} THEN Ok(AddLE(q, h.val, 0)) ELSE Ok(q))

K_skip_n(b, q, n, forever) ==
  IF n = 0 THEN IF forever THEN Throw(Hang) ELSE Ok(q)
  ELSE Bind(K_skip(b, q), LAMBDA q1 : K_skip_n(b, q1, n - 1, forever))

K_skip_indef(b, q, per, fuel) ==
  IF ~InBuf(b, q, 1) THEN Throw(UBErr)
  ELSE IF b[ToInt(q) + 1] = 255 THEN Ok(AddW(q, 1))
  ELSE Bind(K_skip_n(b, q, per, FALSE), LAMBDA q1 :
         IF fuel = 0 THEN Throw(Hang) ELSE K_skip_indef(b, q1, per, fuel - 1))

K_skip_chunks(b, q, fuel) ==
  IF ~InBuf(b, q, 1) THEN Throw(UBErr)
  ELSE IF b[ToInt(q) + 1] = 255 THEN Ok(AddW(q, 1))
  ELSE Bind(K_read_head(b, q), LAMBDA ch :
         IF fuel = 0 THEN Throw(Hang)
         ELSE K_skip_chunks(b, AddLE(AddW(q, ch.hlen), ch.val, 0), fuel - 1))

\* KeysView::begin(): the iterator {q, remaining, indefinite}.
K_begin(b, start) ==
  Bind(K_read_head(b, W64(start)), LAMBDA h :
    Ok([q |-> W64(start + h.hlen),
        remaining |-> IF h.indefinite THEN Zero64 ELSE h.val,
        indefinite |-> h.indefinite]))

\* KeysView::end(): after all entries of a definite map; of an indefinite
\* map the position after the break byte.
K_end(b, start) ==
  Bind(K_read_head(b, W64(start)), LAMBDA h :
    Bind(IF h.indefinite THEN K_skip_indef(b, W64(start + h.hlen), 2, Len(b))
         ELSE IF IsSmall(h.val)
         THEN K_skip_n(b, W64(start + h.hlen), 2 * ToInt(h.val), FALSE)
         ELSE K_skip_n(b, W64(start + h.hlen), 2 * (Len(b) + 1), TRUE),
         LAMBDA e : Ok([q |-> e, remaining |-> Zero64, indefinite |-> h.indefinite])))

\* operator==: the cursors (both iterators are over one buffer).
K_eq(x, y) == x.q = y.q

\* operator*: a definite text key is viewed in place, unchecked; any other
\* key goes through asString().
K_deref(b, it) ==
  Bind(K_read_head(b, it.q), LAMBDA kh :
    IF kh.major = 3 /\ ~kh.indefinite
    THEN With(AddW(it.q, kh.hlen), LAMBDA at :
           IF IsSmall(kh.val) /\ InBuf(b, at, ToInt(kh.val))
           THEN Ok(Slice(b, ToInt(at), ToInt(kh.val)))
           ELSE Throw(UBErr))
    ELSE C_asString(CborView(b, ToInt(it.q))))

\* operator++
K_next(b, it) ==
  IF it.indefinite
  THEN IF ~InBuf(b, it.q, 1) THEN Throw(UBErr)
       ELSE IF b[ToInt(it.q) + 1] = 255 THEN Ok(it)
       ELSE Bind(K_skip_n(b, it.q, 2, FALSE), LAMBDA q1 : Ok([it EXCEPT !.q = q1]))
  ELSE IF it.remaining = Zero64 THEN Ok(it)
  ELSE Bind(K_skip_n(b, it.q, 2, FALSE), LAMBDA q1 :
         Ok([it EXCEPT !.q = q1, !.remaining = AddLE(@, Rep(8, 255), 0)]))

\* for (std::string_view k : v.mapKeys()) acc.push_back(k); a loop that has
\* taken more rounds than the buffer has positions has repeated one.
RECURSIVE K_collect(_, _, _, _, _)
K_collect(b, it, last, acc, fuel) ==
  IF K_eq(it, last) THEN Ok(acc)
  ELSE IF fuel = 0 THEN Throw(Hang)
  ELSE Bind(K_deref(b, it), LAMBDA k :
       Bind(K_next(b, it), LAMBDA n :
         K_collect(b, n, last, Append(acc, k), fuel - 1)))

\* mapKeys(), iterated to the end.
C_keys(v) ==
  Bind(C_head(v), LAMBDA h :
    IF h.major # 5 THEN Throw(DesErr)
    ELSE Bind(K_begin(v.buf, v.pos), LAMBDA bg :
         Bind(K_end(v.buf, v.pos), LAMBDA en :
           K_collect(v.buf, bg, en, <<>>, Len(v.buf) + 1))))

(***************************************************************************)
(* JSON (json.hpp).  The writer builds a yyjson document, a tree of nodes  *)
(* [t, v]: t is "null", "bool", "sint", "uint" (v the 64 bits), "real",    *)
(* "str", "arr" (v the elements) or "obj" (v the entries [k, v]).  A       *)
(* context on the writer's stack holds the path of its node from the root. *)
(* finish() writes the document as text and the reader parses the text.    *)
(***************************************************************************)
JN(t, v) == [t |-> t, v |-> v]

NoNode == JN("none", 0)

\* ndebug: the build defines NDEBUG.
JsonRoot(ndebug) ==
  [codec |-> "json", root |-> NoNode, wrote_root |-> FALSE, st |-> <<>>,
   ndebug |-> ndebug, err |-> NoErr, msg |-> ""]

\* throw std::logic_error(msg): the call has no other effect.
J_raise(ws, msg) == [ws EXCEPT !.err = LogicErr, !.msg = msg]

\* The document with item added to the container at path.
RECURSIVE AddAt(_, _, _)
AddAt(node, path, item) ==
  IF path = <<>> THEN [node EXCEPT !.v = Append(@, item)]
  ELSE IF node.t = "obj"
  THEN [node EXCEPT !.v[path[1]].v = AddAt(@, Tail(path), item)]
  ELSE [node EXCEPT !.v[path[1]] = AddAt(@, Tail(path), item)]

\* The node at path.
RECURSIVE NodeAt(_, _)
NodeAt(node, path) ==
  IF path = <<>> THEN node
  ELSE IF node.t = "obj" THEN NodeAt(node.v[path[1]].v, Tail(path))
  ELSE NodeAt(node.v[path[1]], Tail(path))

\* c_str(): the bytes before the first NUL.
RECURSIVE c_str(_)
c_str(s) == IF s = <<>> \/ s[1] = 0 THEN <<>> ELSE <<s[1]>> \o c_str(Tail(s))

\* push_value(v)
J_push_value(ws, node) ==
  IF ws.st = <<>>
  THEN IF ws.wrote_root THEN J_raise(ws, "multiple root values")
       ELSE [ws EXCEPT !.root = node, !.wrote_root = TRUE]
  ELSE LET c == ws.st[Len(ws.st)]
       IN  IF c.k = "Arr" THEN [ws EXCEPT !.root = AddAt(@, c.path, node)]
           ELSE IF c.pending_key = <<>>
           THEN J_raise(ws, "value added to object without key()")
           ELSE IF ~ws.ndebug /\ \E i \in 1..Len(c.pending_key) : c.pending_key[i] = 0
           THEN J_raise(ws, "embedded NUL in key() input")
           ELSE [ws EXCEPT !.root = AddAt(@, c.path, [k |-> c_str(c.pending_key), v |-> node]),
                           !.st[Len(ws.st)].pending_key = <<>>]

J_null(ws) == J_push_value(ws, JN("null", 0))

J_boolean(ws, v) == J_push_value(ws, JN("bool", v))

J_int64(ws, v) == J_push_value(ws, JN("sint", u64_of_i64(v)))

J_uint64(ws, v) == J_push_value(ws, JN("uint", v))

J_double(ws, v) == J_push_value(ws, JN("real", v))

J_string(ws, sv) == J_push_value(ws, JN("str", sv))

\* ensure_in(want, fn)
J_ensure_in(ws, want) == ws.st # <<>> /\ ws.st[Len(ws.st)].k = want

\* begin_array / begin_map: the node is attached first, then tracked.
J_begin(ws, k, node) ==
  LET w1   == J_push_value(ws, node)
      path == IF ws.st = <<>> THEN <<>>
              ELSE LET c == ws.st[Len(ws.st)]
                   IN  c.path \o <<Len(NodeAt(ws.root, c.path).v) + 1>>
  IN  IF w1.err # NoErr THEN w1
      ELSE [w1 EXCEPT !.st = Append(@, [k |-> k, path |-> path, pending_key |-> <<>>])]

J_begin_array(ws, n) == J_begin(ws, "Arr", JN("arr", <<>>))

J_begin_map(ws, n) == J_begin(ws, "Obj", JN("obj", <<>>))

J_end_array(ws) ==
  IF ~J_ensure_in(ws, "Arr") THEN J_raise(ws, "end_array called outside correct container")
  ELSE [ws EXCEPT !.st = SubSeq(@, 1, Len(@) - 1)]

J_end_map(ws) ==
  IF ~J_ensure_in(ws, "Obj") THEN J_raise(ws, "end_map called outside correct container")
  ELSE IF ws.st[Len(ws.st)].pending_key # <<>>
  THEN J_raise(ws, "end_map() while awaiting value for key()")
  ELSE [ws EXCEPT !.st = SubSeq(@, 1, Len(@) - 1)]

J_key(ws, k) ==
  IF ~J_ensure_in(ws, "Obj") THEN J_raise(ws, "key called outside correct container")
  ELSE IF ws.st[Len(ws.st)].pending_key # <<>>
  THEN J_raise(ws, "key() called twice without value")
  ELSE [ws EXCEPT !.st[Len(ws.st)].pending_key = k]

\* binary(b): the triple ["~b", base64, "base64"]; the base64 text is
\* written by base64Encode.
J_binary_of(ws, text) ==
  LET w1 == J_begin_array(ws, 3)
      w2 == IF w1.err # NoErr THEN w1 ELSE J_string(w1, <<126, 98>>)
      w3 == IF w2.err # NoErr THEN w2 ELSE J_push_value(w2, JN("str", text))
      w4 == IF w3.err # NoErr THEN w3 ELSE J_string(w3, <<98, 97, 115, 101, 54, 52>>)
  IN  IF w4.err # NoErr THEN w4 ELSE J_end_array(w4)

\* A variant with the URL-safe alphabet: - and _ for + and /.
Base64Char_url(i) ==
  IF i < 26 THEN 65 + i
  ELSE IF i < 52 THEN 97 + (i - 26)
  ELSE IF i < 62 THEN 48 + (i - 52)
  ELSE IF i = 62 THEN 45 ELSE 95

\* base64_chars[i]
Base64Char(i) ==
  IF i < 26 THEN 65 + i
  ELSE IF i < 52 THEN 97 + (i - 26)
  ELSE IF i < 62 THEN 48 + (i - 52)
  ELSE IF i = 62 THEN 43 ELSE 47

\* The inner loop of base64Encode: emit 6-bit groups while bits >= 6.
RECURSIVE b64_emit(_, _, _)
b64_emit(value, bits, encoded) ==
  IF bits < 6 THEN [value |-> value % (2 ^ bits), bits |-> bits, encoded |-> encoded]
  ELSE b64_emit(value, bits - 6,
                Append(encoded, Base64Char((value \div (2 ^ (bits - 6))) % 64)))

\* The outer loop of base64Encode, the flush and the padding.
RECURSIVE b64_loop(_, _, _, _)
b64_loop(data, value, bits, encoded) ==
  IF data = <<>>
  THEN LET flushed == IF bits > 0
                      THEN Append(encoded, Base64Char((value * (2 ^ (6 - bits))) % 64))
                      ELSE encoded
       IN  flushed \o Rep((4 - (Len(flushed) % 4)) % 4, 61)
  ELSE LET e == b64_emit(value * 256 + data[1], bits + 8, encoded)
       IN  b64_loop(Tail(data), e.value, e.bits, e.encoded)

base64Encode(data) == b64_loop(data, 0, 0, <<>>)

J_binary(ws, bl) == J_binary_of(ws, base64Encode(bl))

\* x div 10 and x mod 10 of a word x, by long division from the top byte.
RECURSIVE DivStep(_, _, _, _)
DivStep(x, i, r, q) ==
  IF i = 0 THEN [q |-> q, r |-> r]
  ELSE LET cur == r * 256 + x[i]
       IN  DivStep(x, i - 1, cur % 10, [q EXCEPT ![i] = cur \div 10])

Div10(x) == DivStep(x, 8, 0, Zero64)

\* 10 * x + d of a word x; carry is what exceeds 64 bits.
RECURSIVE MulStep(_, _, _, _)
MulStep(x, i, c, acc) ==
  IF i > 8 THEN [val |-> acc, carry |-> c]
  ELSE LET cur == x[i] * 10 + c
       IN  MulStep(x, i + 1, cur \div 256, [acc EXCEPT ![i] = cur % 256])

Mul10Add(x, d) == MulStep(x, 1, d, Zero64)

\* The decimal digits of a word, as yyjson writes a number.
RECURSIVE Digits(_)
Digits(x) ==
  IF x = Zero64 THEN <<>> ELSE LET d == Div10(x) IN Digits(d.q) \o <<48 + d.r>>

write_u64(x) == IF x = Zero64 THEN <<48>> ELSE Digits(x)

\* A "sint" node holds the bits of an int64_t.
write_i64(bits) ==
  IF bits[8] >= 128 THEN <<45>> \o Digits(Neg64(bits)) ELSE write_u64(bits)

\* A string as yyjson writes it: quote and backslash escaped, control
\* characters as \u00XX or their short form.  The strings written here are
\* ASCII.
HexDigit(d) == IF d < 10 THEN 48 + d ELSE 87 + d

EscapeByte(c) ==
  IF c = 34 THEN <<92, 34>>
  ELSE IF c = 92 THEN <<92, 92>>
  ELSE IF c = 8 THEN <<92, 98>>
  ELSE IF c = 9 THEN <<92, 116>>
  ELSE IF c = 10 THEN <<92, 110>>
  ELSE IF c = 12 THEN <<92, 102>>
  ELSE IF c = 13 THEN <<92, 114>>
  ELSE IF c < 32 THEN <<92, 117, 48, 48, HexDigit(c \div 16), HexDigit(c % 16)>>
  ELSE <<c>>

RECURSIVE write_str_body(_)
write_str_body(s) ==
  IF s = <<>> THEN <<>> ELSE EscapeByte(s[1]) \o write_str_body(Tail(s))

write_str(s) == <<34>> \o write_str_body(s) \o <<34>>

\* yyjson_mut_write(doc, 0, &len): the minified text of a node.  The only
\* reals written here are 1.5 and 0.0.
RECURSIVE J_write_node(_), J_write_elems(_, _), J_write_entries(_, _)
J_write_node(n) ==
  CASE n.t = "null" -> <<110, 117, 108, 108>>
    [] n.t = "bool" -> IF n.v THEN <<116, 114, 117, 101>> ELSE <<102, 97, 108, 115, 101>>
    [] n.t = "sint" -> write_i64(n.v)
    [] n.t = "uint" -> write_u64(n.v)
    [] n.t = "real" -> IF n.v = Zero64 THEN <<48, 46, 48>> ELSE <<49, 46, 53>>
    [] n.t = "str"  -> write_str(n.v)
    [] n.t = "arr"  -> <<91>> \o J_write_elems(n.v, 1) \o <<93>>
    [] n.t = "obj"  -> <<123>> \o J_write_entries(n.v, 1) \o <<125>>

J_write_elems(es, i) ==
  IF i > Len(es) THEN <<>>
  ELSE (IF i > 1 THEN <<44>> ELSE <<>>) \o J_write_node(es[i]) \o J_write_elems(es, i + 1)

J_write_entries(es, i) ==
  IF i > Len(es) THEN <<>>
  ELSE (IF i > 1 THEN <<44>> ELSE <<>>) \o write_str(es[i].k) \o <<58>>
         \o J_write_node(es[i].v) \o J_write_entries(es, i + 1)

\* finish(): a null root when none was set.
J_finish(ws) ==
  LET root == IF ws.root.t = "none" THEN JN("null", 0) ELSE ws.root
  IN  [w |-> [ws EXCEPT !.root = NoNode], out |-> J_write_node(root)]

\* The digits of a number text accumulated into a word; carry is set when
\* the number exceeds 64 bits.
RECURSIVE read_digits(_, _)
read_digits(ds, acc) ==
  IF ds = <<>> THEN [val |-> acc, carry |-> 0]
  ELSE LET m == Mul10Add(acc, ds[1] - 48)
       IN  IF m.carry > 0 THEN m ELSE read_digits(Tail(ds), m.val)

IsDigits(ds) ==
  /\ ds # <<>>
  /\ \A i \in 1..Len(ds) : ds[i] \in 48..57
  /\ Len(ds) > 1 => ds[1] # 48

\* yyjson_read of a text that is one integer literal: a number without a
\* sign is "uint", one with a sign is "sint" when it is no less than
\* INT64_MIN, and an integer that does not fit is read as "real".
read_number(text) ==
  LET neg == text # <<>> /\ text[1] = 45
      ds  == IF neg THEN Tail(text) ELSE text
      r   == read_digits(ds, Zero64)
  IN  IF ~IsDigits(ds) THEN Throw(DesErr)
      ELSE IF r.carry > 0 THEN Ok(JN("real", text))
      ELSE IF ~neg THEN Ok(JN("uint", r.val))
      ELSE IF LtLE(PowHalf(8), r.val) THEN Ok(JN("real", text))
      ELSE Ok(JN("sint", Neg64(r.val)))

\* isNull(): yyjson_is_null
J_isNull(n) == n.t = "null"

\* yyjson_is_int, yyjson_is_uint
J_isInt(n) == n.t \in {"sint", "uint"}

J_isUInt(n) == n.t = "uint"

\* asInt8/16/32/64 (k = 1, 2, 4, 8): static_cast<intN_t>(yyjson_get_sint()),
\* the 64 bits of the number taken as an int64_t.
J_asIntN(n, k) ==
  IF ~J_isInt(n) THEN Throw(DesErr) ELSE Ok(cast_int(i64_of_u64(n.v), k))

\* asUInt8/16/32/64: static_cast<uintN_t>(yyjson_get_uint()).
J_asUIntN(n, k) ==
  IF ~J_isUInt(n) THEN Throw(DesErr) ELSE Ok(cast_uint(n.v, k))

(***************************************************************************)
(* The writer as a state machine.  A program drives one Serializer: every  *)
(* call is an action, its argument drawn from the sets below.              *)
(***************************************************************************)
\* Bounds on one program: values written (containers included), key()
\* calls, end_array()/end_map() calls, and the largest size hint.
MaxVals == 3

MaxKeys == 2

MaxEnds == 2

MaxHint == 1

\* The same for the programs that exercise the call protocol of every codec.
MaxProtoCalls == 4

\* Argument values.  U63p5 is 2^63 + 5; D1_5 is the bit pattern of 1.5.
U63p5 == <<5, 0, 0, 0, 0, 0, 0, 128>>

D1_5 == <<0, 0, 0, 0, 0, 0, 248, 63>>

\* 12 bytes with an embedded NUL, and 13 bytes.
S12 == <<104, 101, 108, 108, 111, 0, 119, 111, 114, 108, 100, 33>>

S13 == <<97, 98, 99, 100, 101, 102, 103, 104, 105, 106, 107, 108, 109>>

BoolArgs == {TRUE}

IntArgs == {Minus(2)}

UIntArgs == {U63p5}

DoubleArgs == {D1_5}

StrArgs == {<<>>, S12, S13}

BlobArgs == {<<>>, <<7, 8, 9>>}

KeyArgs == {<<>>, <<97>>, <<97, 0, 98>>}

Call(op, arg) == [op |-> op, arg |-> arg]

ValueOps == {"null", "boolean", "int64", "uint64", "double", "string", "binary",
             "begin_array", "begin_map"}

EndOps == {"end_array", "end_map"}

\* How many calls of cs have their op in ops.
NCalls(cs, ops) == Cardinality({i \in 1..Len(cs) : cs[i].op \in ops})

VARIABLES
  w,      \* the RootSerializer and its Serializer
  calls,  \* the calls made so far, in order
  pc,     \* "writing", "done" (finish() returned), "failed" (a call threw),
          \* then the reader's loop over mapKeys(): "keys", "keysdone", "threw"
  out,    \* the bytes finish() returned
  loop,   \* the range-for over mapKeys() of the root: KeysView, iterator, keys seen
  load,   \* the bounds and argument sets of this program
  inp,    \* the arguments of a reader-side operation (accessor, translator,
          \* tensor adapter) called on its own
  res     \* what that operation returned or threw

vars == <<w, calls, pc, out, loop, load, inp, res>>

\* No reader-side operation under way.
Idle == [op |-> "none"]

NoLoop == [kv |-> [self |-> 0, p |-> 0, count |-> 0],
           it |-> [self |-> 0, cur |-> 0, i |-> 0, n |-> 0],
           seen |-> <<>>, steps |-> 0]

RichLoad ==
  [vals |-> MaxVals, keys |-> MaxKeys, ends |-> MaxEnds, total |-> MaxVals + MaxKeys + MaxEnds + 1,
   hints |-> {0}, strs |-> StrArgs, blobs |-> BlobArgs, keyset |-> KeyArgs]

Init ==
  /\ w = ZeraRoot
  /\ calls = <<>>
  /\ pc = "writing"
  /\ out = <<>>
  /\ loop = NoLoop
  /\ load = RichLoad
  /\ inp = Idle
  /\ res = Idle

\* A writer that keeps the calls made to it, in order, and refuses none:
\* write_value takes any writer W.
CallsRoot == [codec |-> "calls", err |-> NoErr, log |-> <<>>]

Rec(ws, call) == [ws EXCEPT !.log = Append(@, call)]

\* Dispatch on the codec of the writer.
W_null(ws) ==
  CASE ws.codec = "zera" -> Z_null(ws)
    [] ws.codec = "msgpack" -> M_null(ws)
    [] ws.codec = "cbor" -> C_null(ws)
    [] ws.codec = "json" -> J_null(ws)
    [] ws.codec = "calls" -> Rec(ws, Call("null", 0))

W_boolean(ws, v) ==
  CASE ws.codec = "zera" -> Z_boolean(ws, v)
    [] ws.codec = "msgpack" -> M_boolean(ws, v)
    [] ws.codec = "cbor" -> C_boolean(ws, v)
    [] ws.codec = "json" -> J_boolean(ws, v)
    [] ws.codec = "calls" -> Rec(ws, Call("boolean", v))

W_int64(ws, v) ==
  CASE ws.codec = "zera" -> Z_int64(ws, v)
    [] ws.codec = "msgpack" -> M_int64(ws, v)
    [] ws.codec = "cbor" -> C_int64(ws, v)
    [] ws.codec = "json" -> J_int64(ws, v)
    [] ws.codec = "calls" -> Rec(ws, Call("int64", v))

W_uint64(ws, v) ==
  CASE ws.codec = "zera" -> Z_uint64(ws, v)
    [] ws.codec = "msgpack" -> M_uint64(ws, v)
    [] ws.codec = "cbor" -> C_uint64(ws, v)
    [] ws.codec = "json" -> J_uint64(ws, v)
    [] ws.codec = "calls" -> Rec(ws, Call("uint64", v))

W_double(ws, v) ==
  CASE ws.codec = "zera" -> Z_double(ws, v)
    [] ws.codec = "msgpack" -> M_double(ws, v)
    [] ws.codec = "cbor" -> C_double(ws, v)
    [] ws.codec = "json" -> J_double(ws, v)
    [] ws.codec = "calls" -> Rec(ws, Call("double", v))

W_string(ws, sv) ==
  CASE ws.codec = "zera" -> Z_string(ws, sv)
    [] ws.codec = "msgpack" -> M_string(ws, sv)
    [] ws.codec = "cbor" -> C_string(ws, sv)
    [] ws.codec = "json" -> J_string(ws, sv)
    [] ws.codec = "calls" -> Rec(ws, Call("string", sv))

W_binary(ws, bl) ==
  CASE ws.codec = "zera" -> Z_binary(ws, bl)
    [] ws.codec = "msgpack" -> M_binary(ws, bl)
    [] ws.codec = "cbor" -> C_binary(ws, bl)
    [] ws.codec = "json" -> J_binary(ws, bl)
    [] ws.codec = "calls" -> Rec(ws, Call("binary", bl))

W_begin_array(ws, n) ==
  CASE ws.codec = "zera" -> Z_begin_array(ws, n)
    [] ws.codec = "msgpack" -> M_begin_array(ws, n)
    [] ws.codec = "cbor" -> C_begin_array(ws, n)
    [] ws.codec = "json" -> J_begin_array(ws, n)
    [] ws.codec = "calls" -> Rec(ws, Call("begin_array", n))

W_end_array(ws) ==
  CASE ws.codec = "zera" -> Z_end_array(ws)
    [] ws.codec = "msgpack" -> M_end_array(ws)
    [] ws.codec = "cbor" -> C_end_array(ws)
    [] ws.codec = "json" -> J_end_array(ws)
    [] ws.codec = "calls" -> Rec(ws, Call("end_array", 0))

W_begin_map(ws, n) ==
  CASE ws.codec = "zera" -> Z_begin_map(ws, n)
    [] ws.codec = "msgpack" -> M_begin_map(ws, n)
    [] ws.codec = "cbor" -> C_begin_map(ws, n)
    [] ws.codec = "json" -> J_begin_map(ws, n)
    [] ws.codec = "calls" -> Rec(ws, Call("begin_map", n))

W_end_map(ws) ==
  CASE ws.codec = "zera" -> Z_end_map(ws)
    [] ws.codec = "msgpack" -> M_end_map(ws)
    [] ws.codec = "cbor" -> C_end_map(ws)
    [] ws.codec = "json" -> J_end_map(ws)
    [] ws.codec = "calls" -> Rec(ws, Call("end_map", 0))

W_key(ws, k) ==
  CASE ws.codec = "zera" -> Z_key(ws, k)
    [] ws.codec = "msgpack" -> M_key(ws, k)
    [] ws.codec = "cbor" -> C_key(ws, k)
    [] ws.codec = "json" -> J_key(ws, k)
    [] ws.codec = "calls" -> Rec(ws, Call("key", k))

W_finish(ws) ==
  CASE ws.codec = "zera" -> Z_finish(ws)
    [] ws.codec = "msgpack" -> M_finish(ws)
    [] ws.codec = "cbor" -> C_finish(ws)
    [] ws.codec = "json" -> J_finish(ws)

\* One call returning ws1, recorded; an exception ends the program.
Step(ws1, call) ==
  /\ w' = ws1
  /\ calls' = Append(calls, call)
  /\ pc' = IF ws1.err # NoErr THEN "failed" ELSE "writing"
  /\ UNCHANGED <<out, loop, load, inp, res>>

CanCall == pc = "writing" /\ Len(calls) < load.total

CanValue == CanCall /\ NCalls(calls, ValueOps) < load.vals

Null == CanValue /\ Step(W_null(w), Call("null", 0))

Boolean == CanValue /\ \E v \in BoolArgs : Step(W_boolean(w, v), Call("boolean", v))

Int64 == CanValue /\ \E v \in IntArgs : Step(W_int64(w, v), Call("int64", v))

UInt64 == CanValue /\ \E v \in UIntArgs : Step(W_uint64(w, v), Call("uint64", v))

Double == CanValue /\ \E v \in DoubleArgs : Step(W_double(w, v), Call("double", v))

String == CanValue /\ \E sv \in load.strs : Step(W_string(w, sv), Call("string", sv))

Binary == CanValue /\ \E bl \in load.blobs : Step(W_binary(w, bl), Call("binary", bl))

BeginArray ==
  CanValue /\ \E n \in load.hints : Step(W_begin_array(w, n), Call("begin_array", n))

BeginMap ==
  CanValue /\ \E n \in load.hints : Step(W_begin_map(w, n), Call("begin_map", n))

EndArray ==
  /\ CanCall /\ NCalls(calls, EndOps) < load.ends
  /\ Step(W_end_array(w), Call("end_array", 0))

EndMap ==
  /\ CanCall /\ NCalls(calls, EndOps) < load.ends
  /\ Step(W_end_map(w), Call("end_map", 0))

Key ==
  /\ CanCall /\ NCalls(calls, {"key"}) < load.keys
  /\ \E k \in load.keyset : Step(W_key(w, k), Call("key", k))

Finish ==
  /\ pc = "writing"
  /\ LET r == W_finish(w)
     IN  /\ w' = r.w
         /\ out' = r.out
         /\ pc' = IF r.w.err # NoErr THEN "failed" ELSE "done"
  /\ calls' = Append(calls, Call("finish", 0))
  /\ UNCHANGED <<loop, load, inp, res>>

\* for (std::string_view k : root.mapKeys()) ... on the buffer written:
\* mapKeys() and begin(), then one deref and ++ per step while it != end().
MapKeys ==
  /\ pc = "done" /\ w.codec = "zera"
  /\ LET d  == init_from(out)
         kv == Z_mapKeys(d.val)
     IN  IF d.ok /\ kv.ok
         THEN /\ loop' = [kv |-> kv.val, it |-> KV_begin(kv.val), seen |-> <<>>,
                          steps |-> 0]
              /\ pc' = IF KV_eq(KV_begin(kv.val), KV_end(kv.val))
                       THEN "keysdone" ELSE "keys"
         ELSE /\ loop' = loop
              /\ pc' = "threw"
  /\ UNCHANGED <<w, calls, out, load, inp, res>>

KeysStep ==
  /\ pc = "keys"
  /\ LET k  == KV_deref(loop.it)
         nx == KV_next(loop.it)
     IN  IF k.ok /\ nx.ok
         THEN /\ loop' = [loop EXCEPT !.it = nx.val, !.seen = Append(@, k.val),
                                      !.steps = @ + 1]
              /\ pc' = IF KV_eq(nx.val, KV_end(loop.kv)) THEN "keysdone" ELSE "keys"
         ELSE /\ loop' = loop
              /\ pc' = "threw"
  /\ UNCHANGED <<w, calls, out, load, inp, res>>

Next ==
  \/ Null \/ Boolean \/ Int64 \/ UInt64 \/ Double \/ String \/ Binary
  \/ BeginArray \/ EndArray \/ BeginMap \/ EndMap \/ Key \/ Finish
  \/ MapKeys \/ KeysStep

Spec == Init /\ [][Next]_vars

(***************************************************************************)
(* The writer protocol.  The program of Spec, for the writers whose        *)
(* protocol checks are in the sources (ZERA, MessagePack, JSON in both     *)
(* builds), over a small set of calls and with size hints 0 .. MaxHint.    *)
(* The protocol checks of the CBOR and FlexBuffers writers are made, if at *)
(* all, by jsoncons' encoder and by flexbuffers::Builder, which are not    *)
(* part of the sources.                                                    *)
(***************************************************************************)
ProtoLoad ==
  [vals |-> MaxProtoCalls, keys |-> MaxProtoCalls, ends |-> MaxProtoCalls,
   total |-> MaxProtoCalls, hints |-> 0..MaxHint, strs |-> {<<>>},
   blobs |-> {<<>>}, keyset |-> {<<>>, <<97>>}]

ProtoRoots == {ZeraRoot, MsgPackRoot, JsonRoot(TRUE), JsonRoot(FALSE)}

InitP ==
  /\ w \in ProtoRoots
  /\ calls = <<>>
  /\ pc = "writing"
  /\ out = <<>>
  /\ loop = NoLoop
  /\ load = ProtoLoad
  /\ inp = Idle
  /\ res = Idle

NextP ==
  \/ Null \/ Int64 \/ String
  \/ BeginArray \/ EndArray \/ BeginMap \/ EndMap \/ Key \/ Finish

SpecP == InitP /\ [][NextP]_vars

(***************************************************************************)
(* Integer accessors.  A program writes one integer as the root with       *)
(* int64() or uint64(), finishes, opens a reader on the buffer and calls   *)
(* one of asInt8 .. asInt64, asUInt8 .. asUInt64.                          *)
(***************************************************************************)
\* 2^k as a word, and x - 1.
P2(k) == [i \in 1..8 |-> IF i = (k \div 8) + 1 THEN 2 ^ (k % 8) ELSE 0]

Sub1(x) == AddLE(x, Rep(8, 255), 0)

\* The integers written: the bounds of every width and their neighbours.
SignedArgs ==
  {MI(TRUE, P2(63)), MI(TRUE, AddLE(P2(31), W64(1), 0)), MI(TRUE, P2(31)),
   Minus(32769), Minus(32768), Minus(129), Minus(128), Minus(1), Pos(0),
   Pos(127), Pos(128), Pos(300), Pos(32767), Pos(32768),
   MI(FALSE, Sub1(P2(31))), MI(FALSE, P2(31)), MI(FALSE, Sub1(P2(63)))}

UnsignedArgs ==
  {W64(0), W64(255), W64(256), W64(65535), W64(65536), Sub1(P2(32)), P2(32),
   Sub1(P2(63)), P2(63), U63p5, AllOnes(8)}

IntCodecs == {"zera", "msgpack", "cbor", "json"}

\* Widths in bytes of the accessors.
Widths == {1, 2, 4, 8}

\* tag: the writer call, "I64" for int64() and "U64" for uint64(); val: the
\* integer written.
IntInputs ==
  {[op |-> "int", codec |-> c, tag |-> "I64", val |-> v] :
     c \in IntCodecs, v \in SignedArgs}
  \cup {[op |-> "int", codec |-> c, tag |-> "U64", val |-> m_of_u64(u)] :
          c \in IntCodecs, u \in UnsignedArgs}

\* A freshly constructed writer.
RootOf(codec) ==
  CASE codec = "zera" -> ZeraRoot
    [] codec = "msgpack" -> MsgPackRoot
    [] codec = "cbor" -> CborRoot
    [] codec = "json" -> JsonRoot(TRUE)

InitInt ==
  /\ inp \in IntInputs
  /\ w = RootOf(inp.codec)
  /\ calls = <<>> /\ pc = "storing" /\ out = <<>>
  /\ loop = NoLoop /\ load = RichLoad
  /\ res = Idle

\* int64(v) or uint64(v), then finish().
StoreInt ==
  /\ pc = "storing" /\ inp.op = "int"
  /\ LET w1 == IF inp.tag = "I64" THEN W_int64(w, inp.val) ELSE W_uint64(w, inp.val.mag)
         f  == W_finish(w1)
     IN  /\ w' = f.w
         /\ out' = f.out
         /\ pc' = IF w1.err # NoErr \/ f.w.err # NoErr THEN "failed" ELSE "stored"
  /\ calls' = <<Call(IF inp.tag = "I64" THEN "int64" ELSE "uint64", inp.val),
                Call("finish", 0)>>
  /\ UNCHANGED <<loop, load, inp, res>>

\* The reader's integer accessors on the root of buffer buf.
R_asIntN(codec, buf, k) ==
  CASE codec = "zera" ->
         LET d == init_from(buf)
         IN  IF ~d.ok THEN d ELSE IF k = 8 THEN Z_asInt64(d.val) ELSE Z_asIntN(d.val, k)
    [] codec = "msgpack" -> M_asIntN(buf, k)
    [] codec = "cbor" -> C_asIntN(CborView(buf, 0), k)
    [] codec = "json" ->
         LET d == read_number(buf) IN IF ~d.ok THEN d ELSE J_asIntN(d.val, k)

R_asUIntN(codec, buf, k) ==
  CASE codec = "zera" ->
         LET d == init_from(buf)
         IN  IF ~d.ok THEN d ELSE IF k = 8 THEN Z_asUInt64(d.val) ELSE Z_asUIntN(d.val, k)
    [] codec = "msgpack" -> M_asUIntN(buf, k)
    [] codec = "cbor" -> C_asUIntN(CborView(buf, 0), k)
    [] codec = "json" ->
         LET d == read_number(buf) IN IF ~d.ok THEN d ELSE J_asUIntN(d.val, k)

AsIntN ==
  /\ pc = "stored" /\ inp.op = "int"
  /\ \E k \in Widths : res' = [op |-> "asInt", k |-> k, r |-> R_asIntN(inp.codec, out, k)]
  /\ pc' = "read"
  /\ UNCHANGED <<w, calls, out, loop, load, inp>>

AsUIntN ==
  /\ pc = "stored" /\ inp.op = "int"
  /\ \E k \in Widths : res' = [op |-> "asUInt", k |-> k, r |-> R_asUIntN(inp.codec, out, k)]
  /\ pc' = "read"
  /\ UNCHANGED <<w, calls, out, loop, load, inp>>

NextInt == StoreInt \/ AsIntN \/ AsUIntN

SpecInt == InitInt /\ [][NextInt]_vars

(***************************************************************************)
(* The translator (translate.hpp) over the readers and writers of ZERA,    *)
(* MessagePack and CBOR.  A reader is a pair of a codec and a view.        *)
(***************************************************************************)
\* Deserializer(bytes)
R_open(codec, buf) ==
  CASE codec = "zera" -> init_from(buf)
    [] codec = "msgpack" -> Ok(buf)
    [] codec = "cbor" -> Ok(CborView(buf, 0))

\* The predicates, in the order write_value asks them.
Classes == <<"null", "bool", "int", "uint", "float", "str", "blob", "map", "arr">>

R_is(codec, v, cl) ==
  CASE codec = "zera" ->
         (CASE cl = "null"  -> is_tag(v, TagNull)
            [] cl = "bool"  -> is_tag(v, TagBool)
            [] cl = "int"   -> is_tag(v, TagI64)
            [] cl = "uint"  -> is_tag(v, TagU64)
            [] cl = "float" -> is_tag(v, TagF64)
            [] cl = "str"   -> is_tag(v, TagString)
            [] cl = "blob"  -> isBlob(v)
            [] cl = "map"   -> is_tag(v, TagObject)
            [] cl = "arr"   -> is_tag(v, TagArray))
    [] codec = "msgpack" ->
         Ok(CASE cl = "null"  -> M_isNull(v)
              [] cl = "bool"  -> M_isBool(v)
              [] cl = "int"   -> M_isInt(v)
              [] cl = "uint"  -> M_isUInt(v)
              [] cl = "float" -> M_isFloat(v)
              [] cl = "str"   -> M_isString(v)
              [] cl = "blob"  -> M_isBlob(v)
              [] cl = "map"   -> M_isMap(v)
              [] cl = "arr"   -> M_isArray(v))
    [] codec = "cbor" ->
         (CASE cl = "null"  -> C_isNull(v)
            [] cl = "bool"  -> C_isBool(v)
            [] cl = "int"   -> C_isInt(v)
            [] cl = "uint"  -> C_isUInt(v)
            [] cl = "float" -> C_isFloat(v)
            [] cl = "str"   -> C_isString(v)
            [] cl = "blob"  -> C_isBlob(v)
            [] cl = "map"   -> C_isMap(v)
            [] cl = "arr"   -> C_isArray(v))

R_asBool(codec, v) ==
  CASE codec = "zera" -> Z_asBool(v)
    [] codec = "msgpack" -> M_asBool(v)
    [] codec = "cbor" -> C_asBool(v)

R_asInt64(codec, v) ==
  CASE codec = "zera" -> Z_asInt64(v)
    [] codec = "msgpack" -> M_asInt64(v)
    [] codec = "cbor" -> C_asInt64(v)

R_asUInt64(codec, v) ==
  CASE codec = "zera" -> Z_asUInt64(v)
    [] codec = "msgpack" -> M_asUInt64(v)
    [] codec = "cbor" -> C_asUInt64(v)

R_asDouble(codec, v) ==
  CASE codec = "zera" -> Z_asDouble(v)
    [] codec = "msgpack" -> M_asDouble(v)
    [] codec = "cbor" -> C_asDouble(v)

R_asStringView(codec, v) ==
  CASE codec = "zera" -> Z_asStringView(v)
    [] codec = "msgpack" -> M_asStringView(v)
    [] codec = "cbor" -> C_asStringView(v)

\* asBlob(): the bytes of the span.
R_asBlob(codec, v) ==
  CASE codec = "zera" -> LET r == Z_asBlob(v) IN IF ~r.ok THEN r ELSE Ok(r.val.bytes)
    [] codec = "msgpack" -> M_asBlob(v)
    [] codec = "cbor" -> C_asBlob(v)

\* The keys mapKeys() yields, iterated from begin() to end().
R_keys(codec, v) ==
  CASE codec = "zera" -> Z_keys(v)
    [] codec = "msgpack" -> M_keys(v)
    [] codec = "cbor" -> C_keys(v)

R_get(codec, v, k) ==
  CASE codec = "zera" -> Z_get(v, k)
    [] codec = "msgpack" -> M_get(v, k)
    [] codec = "cbor" -> C_get(v, k)

R_arraySize(codec, v) ==
  CASE codec = "zera" -> Z_arraySize(v)
    [] codec = "msgpack" -> M_arraySize(v)
    [] codec = "cbor" -> C_arraySize(v)

R_at(codec, v, i) ==
  CASE codec = "zera" -> Z_at(v, i)
    [] codec = "msgpack" -> M_at(v, i)
    [] codec = "cbor" -> C_at(v, i)

\* The first predicate of write_value that holds from the i-th on, "none"
\* when none does; a predicate may throw.
RECURSIVE first_class(_, _, _)
first_class(codec, v, i) ==
  IF i > Len(Classes) THEN Ok("none")
  ELSE Bind(R_is(codec, v, Classes[i]), LAMBDA r :
         IF r THEN Ok(Classes[i]) ELSE first_class(codec, v, i + 1))

RuntimeErr == "std::runtime_error"

\* An exception of class r.err leaves write_value through the writer ws.
Escapes(ws, r) == [ws EXCEPT !.err = r.err]

\* W applied to the writer ws, unless an exception has left through it.
Unless(ws, W(_)) == IF ws.err # NoErr THEN ws ELSE W(ws)

\* write_value(v, w); write_entries and write_elements are its two loops, at
\* key i of ks and at element i of n.  A writer in which an exception has
\* been raised takes no further call.
RECURSIVE write_value(_, _, _), write_entries(_, _, _, _, _), write_elements(_, _, _, _, _)
write_value(codec, v, ws) ==
  LET Read(r, W(_)) == IF ~r.ok THEN Escapes(ws, r) ELSE W(r.val)
  IN  Read(first_class(codec, v, 1), LAMBDA cl :
        CASE cl = "null"  -> W_null(ws)
          [] cl = "bool"  -> Read(R_asBool(codec, v), LAMBDA x : W_boolean(ws, x))
          [] cl = "int"   -> Read(R_asInt64(codec, v), LAMBDA x : W_int64(ws, x))
          [] cl = "uint"  -> Read(R_asUInt64(codec, v), LAMBDA x : W_uint64(ws, x.mag))
          [] cl = "float" -> Read(R_asDouble(codec, v), LAMBDA x : W_double(ws, x))
          [] cl = "str"   -> Read(R_asStringView(codec, v), LAMBDA x : W_string(ws, x))
          [] cl = "blob"  -> Read(R_asBlob(codec, v), LAMBDA x : W_binary(ws, x))
          [] cl = "map"   ->
               Read(R_keys(codec, v), LAMBDA ks :
                 Unless(write_entries(codec, v, ks, 1, W_begin_map(ws, Len(ks))),
                        LAMBDA w2 : W_end_map(w2)))
          [] cl = "arr"   ->
               Read(R_arraySize(codec, v), LAMBDA n :
                 Unless(write_elements(codec, v, n, 0, W_begin_array(ws, n)),
                        LAMBDA w2 : W_end_array(w2)))
          [] cl = "none"  -> Escapes(ws, Throw(RuntimeErr)))

write_entries(codec, v, ks, i, ws) ==
  IF ws.err # NoErr \/ i > Len(ks) THEN ws
  ELSE write_entries(codec, v, ks, i + 1,
         Unless(W_key(ws, ks[i]), LAMBDA w1 :
           With(R_get(codec, v, ks[i]), LAMBDA e :
             IF ~e.ok THEN Escapes(w1, e) ELSE write_value(codec, e.val, w1))))

write_elements(codec, v, n, i, ws) ==
  IF ws.err # NoErr \/ i >= n THEN ws
  ELSE write_elements(codec, v, n, i + 1,
         With(R_at(codec, v, i), LAMBDA e :
           IF ~e.ok THEN Escapes(ws, e) ELSE write_value(codec, e.val, ws)))

\* translate<DstP>(src): the bytes the destination reader is built from.
translate(src_codec, src, dst_codec) ==
  With(write_value(src_codec, src, RootOf(dst_codec)), LAMBDA w1 :
    IF w1.err # NoErr THEN Throw(w1.err)
    ELSE With(W_finish(w1), LAMBDA f :
           IF f.w.err # NoErr THEN Throw(f.w.err) ELSE Ok(f.out)))

\* The values translated: [t, v] as in the value section below; an integer
\* written with int64() is "int", one written with uint64() is "uint".
TrValues ==
  << [t |-> "null", v |-> 0],
     [t |-> "bool", v |-> TRUE],
     [t |-> "int", v |-> Minus(2)],
     [t |-> "int", v |-> Pos(5)],
     [t |-> "int", v |-> IntMin(8)],
     [t |-> "uint", v |-> W64(7)],
     [t |-> "uint", v |-> U63p5],
     [t |-> "float", v |-> D1_5],
     [t |-> "str", v |-> <<>>],
     [t |-> "str", v |-> S13],
     [t |-> "blob", v |-> <<7, 8, 9>>],
     [t |-> "arr", v |-> <<>>],
     [t |-> "arr", v |-> << [t |-> "uint", v |-> U63p5], [t |-> "str", v |-> <<97>>] >>],
     [t |-> "arr", v |-> << [t |-> "arr", v |-> << [t |-> "int", v |-> Minus(2)] >>],
                            [t |-> "map", v |-> << [k |-> <<97>>, v |-> [t |-> "null", v |-> 0]] >>] >>],
     [t |-> "map", v |-> <<>>],
     [t |-> "map", v |-> << [k |-> <<98>>, v |-> [t |-> "blob", v |-> <<>>]],
                            [k |-> <<97>>, v |-> [t |-> "arr", v |-> << [t |-> "float", v |-> D1_5],
                                                                     [t |-> "uint", v |-> W64(7)] >>]] >>] >>

TrCodecs == {"zera", "msgpack", "cbor"}

\* The calls that write value x: a container with its exact size as hint.
RECURSIVE Emit(_, _), EmitElems(_, _, _), EmitEntries(_, _, _)
Emit(ws, x) ==
  CASE x.t = "null"  -> W_null(ws)
    [] x.t = "bool"  -> W_boolean(ws, x.v)
    [] x.t = "int"   -> W_int64(ws, x.v)
    [] x.t = "uint"  -> W_uint64(ws, x.v)
    [] x.t = "float" -> W_double(ws, x.v)
    [] x.t = "str"   -> W_string(ws, x.v)
    [] x.t = "blob"  -> W_binary(ws, x.v)
    [] x.t = "arr"   -> W_end_array(EmitElems(W_begin_array(ws, Len(x.v)), x.v, 1))
    [] x.t = "map"   -> W_end_map(EmitEntries(W_begin_map(ws, Len(x.v)), x.v, 1))

EmitElems(ws, es, i) ==
  IF i > Len(es) THEN ws ELSE EmitElems(Emit(ws, es[i]), es, i + 1)

EmitEntries(ws, es, i) ==
  IF i > Len(es) THEN ws
  ELSE EmitEntries(Emit(W_key(ws, es[i].k), es[i].v), es, i + 1)

\* src: the codec the value is written with, dst: the codec it is translated
\* to, vi: the index of the value.
TrInputs ==
  {[op |-> "translate", src |-> a, dst |-> b, vi |-> i] :
     a \in TrCodecs, b \in TrCodecs, i \in 1..Len(TrValues)}

InitTr ==
  /\ inp \in TrInputs
  /\ w = RootOf(inp.src)
  /\ calls = <<>> /\ pc = "storing" /\ out = <<>>
  /\ loop = NoLoop /\ load = RichLoad
  /\ res = Idle

\* The value is written with the source codec and finish() is called.
WriteSource ==
  /\ pc = "storing" /\ inp.op = "translate"
  /\ \E w1 \in {Emit(w, TrValues[inp.vi])} : \E f \in {W_finish(w1)} :
        /\ w' = f.w
        /\ out' = f.out
        /\ pc' = IF w1.err # NoErr \/ f.w.err # NoErr THEN "failed" ELSE "stored"
  /\ UNCHANGED <<calls, loop, load, inp, res>>

\* translate<Dst>(Src::Deserializer(out))
Translate ==
  /\ pc = "stored" /\ inp.op = "translate"
  /\ res' = [op |-> "translate",
             r  |-> Bind(R_open(inp.src, out),
                         LAMBDA src : translate(inp.src, src, inp.dst))]
  /\ pc' = "translated"
  /\ UNCHANGED <<w, calls, out, loop, load, inp>>

NextTr == WriteSource \/ Translate

SpecTr == InitTr /\ [][NextTr]_vars

(***************************************************************************)
(* The JSON reader.  JsonDeserializer(text) parses the text with           *)
(* yyjson_read into a document, a tree of the nodes above; the texts read  *)
(* here are minified, as finish() writes them.                             *)
(***************************************************************************)
\* A node and the position after it.
JP(n, p) == Ok([n |-> n, p |-> p])

StartsWith(t, p, lit) ==
  p + Len(lit) - 1 <= Len(t) /\ SubSeq(t, p, p + Len(lit) - 1) = lit

\* The value of a hexadecimal digit, 16 for any other character.
HexVal(c) ==
  IF c \in 48..57 THEN c - 48
  ELSE IF c \in 97..102 THEN c - 87
  ELSE IF c \in 65..70 THEN c - 55 ELSE 16

\* The UTF-8 bytes of a code point of the basic plane.
Utf8(cp) ==
  IF cp < 128 THEN <<cp>>
  ELSE IF cp < 2048 THEN <<192 + (cp \div 64), 128 + (cp % 64)>>
  ELSE <<224 + (cp \div 4096), 128 + ((cp \div 64) % 64), 128 + (cp % 64)>>

\* The character an escape letter stands for, 0 for none.
Unescape(e) ==
  CASE e = 34 -> 34 [] e = 92 -> 92 [] e = 47 -> 47 [] e = 98 -> 8
    [] e = 116 -> 9 [] e = 110 -> 10 [] e = 102 -> 12 [] e = 114 -> 13
    [] OTHER -> 0

\* A string from the position after its opening quote.
RECURSIVE read_str(_, _, _)
read_str(t, p, acc) ==
  IF p > Len(t) \/ t[p] < 32 THEN Throw(DesErr)
  ELSE IF t[p] = 34 THEN JP(JN("str", acc), p + 1)
  ELSE IF t[p] # 92 THEN read_str(t, p + 1, Append(acc, t[p]))
  ELSE IF p + 1 > Len(t) THEN Throw(DesErr)
  ELSE IF t[p + 1] = 117
  THEN IF p + 5 <= Len(t) /\ \A i \in 2..5 : HexVal(t[p + i]) < 16
       THEN read_str(t, p + 6,
                     acc \o Utf8(4096 * HexVal(t[p + 2]) + 256 * HexVal(t[p + 3])
                                 + 16 * HexVal(t[p + 4]) + HexVal(t[p + 5])))
       ELSE Throw(DesErr)
  ELSE IF Unescape(t[p + 1]) = 0 THEN Throw(DesErr)
  ELSE read_str(t, p + 2, Append(acc, Unescape(t[p + 1])))

\* The position after the characters of a number that starts at p.
RECURSIVE num_end(_, _)
num_end(t, p) ==
  IF p <= Len(t) /\ t[p] \in (48..57) \cup {43, 45, 46, 69, 101}
  THEN num_end(t, p + 1) ELSE p

\* A number: an integer literal, or one of the reals 1.5 and 0.0.
read_num(t, p) ==
  With(num_end(t, p), LAMBDA e :
    With(SubSeq(t, p, e - 1), LAMBDA s :
      IF s = <<49, 46, 53>> THEN JP(JN("real", D1_5), e)
      ELSE IF s = <<48, 46, 48>> THEN JP(JN("real", Zero64), e)
      ELSE Bind(read_number(s), LAMBDA n : JP(n, e))))

RECURSIVE read_val(_, _), read_elems(_, _, _), read_entries(_, _, _)
read_val(t, p) ==
  IF p > Len(t) THEN Throw(DesErr)
  ELSE IF StartsWith(t, p, <<110, 117, 108, 108>>) THEN JP(JN("null", 0), p + 4)
  ELSE IF StartsWith(t, p, <<116, 114, 117, 101>>) THEN JP(JN("bool", TRUE), p + 4)
  ELSE IF StartsWith(t, p, <<102, 97, 108, 115, 101>>) THEN JP(JN("bool", FALSE), p + 5)
  ELSE IF t[p] = 34 THEN read_str(t, p + 1, <<>>)
  ELSE IF t[p] = 91 THEN read_elems(t, p + 1, <<>>)
  ELSE IF t[p] = 123 THEN read_entries(t, p + 1, <<>>)
  ELSE read_num(t, p)

\* The elements of an array from position p, acc the ones read.
read_elems(t, p, acc) ==
  IF p > Len(t) THEN Throw(DesErr)
  ELSE IF t[p] = 93 /\ acc = <<>> THEN JP(JN("arr", acc), p + 1)
  ELSE Bind(read_val(t, p), LAMBDA r :
         IF r.p > Len(t) THEN Throw(DesErr)
         ELSE IF t[r.p] = 44 THEN read_elems(t, r.p + 1, Append(acc, r.n))
         ELSE IF t[r.p] = 93 THEN JP(JN("arr", Append(acc, r.n)), r.p + 1)
         ELSE Throw(DesErr))

\* The entries of an object from position p, acc the ones read.
read_entries(t, p, acc) ==
  IF p > Len(t) THEN Throw(DesErr)
  ELSE IF t[p] = 125 /\ acc = <<>> THEN JP(JN("obj", acc), p + 1)
  ELSE IF t[p] # 34 THEN Throw(DesErr)
  ELSE Bind(read_str(t, p + 1, <<>>), LAMBDA k :
         IF k.p > Len(t) \/ t[k.p] # 58 THEN Throw(DesErr)
         ELSE Bind(read_val(t, k.p + 1), LAMBDA r :
           With(Append(acc, [k |-> k.n.v, v |-> r.n]), LAMBDA acc1 :
             IF r.p > Len(t) THEN Throw(DesErr)
             ELSE IF t[r.p] = 44 THEN read_entries(t, r.p + 1, acc1)
             ELSE IF t[r.p] = 125 THEN JP(JN("obj", acc1), r.p + 1)
             ELSE Throw(DesErr))))

\* JsonDeserializer(text): the root of the document, or "Failed to parse
\* JSON".
yyjson_read(text) ==
  Bind(read_val(text, 1), LAMBDA r :
    IF r.p = Len(text) + 1 THEN Ok(r.n) ELSE Throw(DesErr))

\* check(pred, what)
J_check(n, ts, F(_)) == IF n.t \notin ts THEN Throw(DesErr) ELSE F(n)

J_isBool(n) == n.t = "bool"

J_isFloat(n) == n.t = "real"

J_isString(n) == n.t = "str"

J_isMap(n) == n.t = "obj"

J_isArray(n) == n.t = "arr"

J_asDouble(n) == J_check(n, {"real"}, LAMBDA x : Ok(x.v))

J_asBool(n) == J_check(n, {"bool"}, LAMBDA x : Ok(x.v))

\* asString(), asStringView()
J_asString(n) == J_check(n, {"str"}, LAMBDA x : Ok(x.v))

J_arraySize(n) == J_check(n, {"arr"}, LAMBDA x : Ok(Len(x.v)))

\* operator[](std::size_t idx)
J_at(n, idx) ==
  J_check(n, {"arr"}, LAMBDA x :
    IF idx >= Len(x.v) THEN Throw(DesErr) ELSE Ok(x.v[idx + 1]))

\* yyjson_obj_getn: the first entry with the key, 0 for none.
RECURSIVE J_obj_getn(_, _, _)
J_obj_getn(es, key, i) ==
  IF i > Len(es) THEN 0
  ELSE IF es[i].k = key THEN i ELSE J_obj_getn(es, key, i + 1)

\* operator[](std::string_view key)
J_get(n, key) ==
  J_check(n, {"obj"}, LAMBDA x :
    With(J_obj_getn(x.v, key, 1), LAMBDA i :
      IF i = 0 THEN Throw(DesErr) ELSE Ok(x.v[i].v)))

J_contains(n, key) == J_isMap(n) /\ J_obj_getn(n.v, key, 1) # 0

blobTag == <<126, 98>>

blobEncoding == <<98, 97, 115, 101, 54, 52>>

\* isBlob(): the array ["~b", <text>, "base64"].
J_isBlob(n) ==
  /\ J_isArray(n) /\ Len(n.v) = 3
  /\ J_isString(n.v[1]) /\ n.v[1].v = blobTag
  /\ J_isString(n.v[2])
  /\ J_isString(n.v[3]) /\ n.v[3].v = blobEncoding

\* lookup[c]: the 6-bit value of a character, 64 for an invalid one.
Base64Lookup(c) ==
  IF c \in 65..90 THEN c - 65
  ELSE IF c \in 97..122 THEN c - 71
  ELSE IF c \in 48..57 THEN c + 4
  ELSE IF c = 43 THEN 62
  ELSE IF c = 47 THEN 63 ELSE 64

\* The loop of base64Decode: buf and bits after the characters before the
\* i-th.  buf is masked to its low bits at least every fourth character and
\* stays below 2^20, within its uint32_t.
RECURSIVE b64_decode(_, _, _, _, _)
b64_decode(encoded, i, buf, bits, decoded) ==
  IF i > Len(encoded) \/ encoded[i] = 61 THEN Ok(decoded)
  ELSE IF Base64Lookup(encoded[i]) = 64 THEN Throw(DesErr)
  ELSE With(buf * 64 + Base64Lookup(encoded[i]), LAMBDA b1 :
         IF bits + 6 >= 8
         THEN b64_decode(encoded, i + 1,
                         IF bits - 2 > 0 THEN b1 % (2 ^ (bits - 2)) ELSE b1,
                         bits - 2,
                         Append(decoded, (b1 \div (2 ^ (bits - 2))) % 256))
         ELSE b64_decode(encoded, i + 1, b1, bits + 6, decoded))

base64Decode(encoded) == b64_decode(encoded, 1, 0, 0, <<>>)

J_asBlob(n) == IF ~J_isBlob(n) THEN Throw(DesErr) ELSE base64Decode(n.v[2].v)

(***************************************************************************)
(* Buffers from elsewhere.  A program opens a CborDeserializer on a buffer  *)
(* that holds one well-formed map (RFC 8949: head a0 + n, or bf ... ff),   *)
(* calls mapKeys() and walks the keys with a range-based for loop; or it   *)
(* opens a reader on a well-formed buffer that no writer of the library    *)
(* produces and translates it.                                             *)
(***************************************************************************)
\* The largest number of entries of an input map.
MaxPairs == 2

\* Keys "", "a", "b" and the encoded values null, 1, "x", [].
CkKeys == {<<>>, <<97>>, <<98>>}

CkVals == {<<246>>, <<1>>, <<97, 120>>, <<128>>}

CkEntries ==
  UNION {[1..n -> [k : CkKeys, v : CkVals]] : n \in 0..MaxPairs}

\* The bytes of the entries from the i-th on: a definite text key, a value.
RECURSIVE CkPairs(_, _)
CkPairs(es, i) ==
  IF i > Len(es) THEN <<>>
  ELSE cbor_head(3, W64(Len(es[i].k))) \o es[i].k \o es[i].v \o CkPairs(es, i + 1)

\* The map on the wire, of definite or of indefinite length.
CkMap(indefinite, es) ==
  IF indefinite THEN <<191>> \o CkPairs(es, 1) \o <<255>>
  ELSE cbor_head(5, W64(Len(es))) \o CkPairs(es, 1)

CkInputs ==
  {[op |-> "mapKeys", indefinite |-> d, entries |-> es] :
     d \in BOOLEAN, es \in CkEntries}

\* The ZERA buffer of the blob 07 08 09 with the dtype of its root value
\* record (the aux field, at offset 2 of the record) set to dtype.
Retyped(dtype) ==
  With(Z_finish(Z_binary(ZeraRoot, <<7, 8, 9>>)).out, LAMBDA buf :
    [buf EXCEPT ![HeaderSize + read_u32_le(buf, 8) + 3] = dtype])

\* The map written by key("a"), int64(-2), key("b"), array of two,
\* key("a"), string("z"): the key "a" twice; no writer refuses it.
TwiceA ==
  [t |-> "map",
   v |-> << [k |-> <<97>>, v |-> [t |-> "int", v |-> Minus(2)]],
            [k |-> <<98>>, v |-> [t |-> "arr", v |-> << [t |-> "null", v |-> 0],
                                                        [t |-> "str", v |-> <<97>>] >>]],
            [k |-> <<97>>, v |-> [t |-> "str", v |-> <<122>>]] >>]

\* Buffers from elsewhere handed to the translator.  CBOR: undefined,
\* tag 1 on the integer 1, simple value 0, [undefined], {"a": undefined},
\* [1, tag 1 on 1], and 1, null, [1] and {"a": 1}.  ZERA: a typed array of
\* dtype i8, one of dtype f32, and a blob (dtype u8).  Then TwiceA as each
\* writer writes it.  Last, CBOR heads with a reserved additional
\* information: 1c (major type 0, 28), fc (major type 7, 28), the array of
\* fd (major type 7, 29) and 1, and the map of "a" to 1e (major type 0, 30)
\* and "b" to 1.
RawBuffers ==
  << [codec |-> "cbor", buf |-> <<247>>],
     [codec |-> "cbor", buf |-> <<193, 1>>],
     [codec |-> "cbor", buf |-> <<224>>],
     [codec |-> "cbor", buf |-> <<129, 247>>],
     [codec |-> "cbor", buf |-> <<161, 97, 97, 247>>],
     [codec |-> "cbor", buf |-> <<130, 1, 193, 1>>],
     [codec |-> "cbor", buf |-> <<1>>],
     [codec |-> "cbor", buf |-> <<246>>],
     [codec |-> "cbor", buf |-> <<129, 1>>],
     [codec |-> "cbor", buf |-> <<161, 97, 97, 1>>],
     [codec |-> "zera", buf |-> Retyped(1)],
     [codec |-> "zera", buf |-> Retyped(9)],
     [codec |-> "zera", buf |-> Retyped(DTypeU8)],
     [codec |-> "zera", buf |-> W_finish(Emit(ZeraRoot, TwiceA)).out],
     [codec |-> "msgpack", buf |-> W_finish(Emit(MsgPackRoot, TwiceA)).out],
     [codec |-> "cbor", buf |-> W_finish(Emit(CborRoot, TwiceA)).out],
     [codec |-> "cbor", buf |-> <<28>>],
     [codec |-> "cbor", buf |-> <<252>>],
     [codec |-> "cbor", buf |-> <<130, 253, 1>>],
     [codec |-> "cbor", buf |-> <<162, 97, 97, 30, 97, 98, 1>>] >>

\* translate<dst>(Deserializer(buffer)) for the raw-th buffer.
RawInputs ==
  {[op |-> "translate", src |-> RawBuffers[i].codec, dst |-> d, raw |-> i] :
     i \in 1..Len(RawBuffers), d \in TrCodecs}

InitKeys ==
  /\ inp \in CkInputs \cup RawInputs
  /\ out = IF inp.op = "mapKeys" THEN CkMap(inp.indefinite, inp.entries)
           ELSE RawBuffers[inp.raw].buf
  /\ w = CborRoot
  /\ calls = <<>> /\ pc = "stored"
  /\ loop = NoLoop /\ load = RichLoad
  /\ res = Idle

\* CborDeserializer(out).mapKeys(), then begin() and end() of the loop.
CborMapKeys ==
  /\ pc = "stored" /\ inp.op = "mapKeys"
  /\ \E r \in {Bind(C_head(CborView(out, 0)), LAMBDA h :
                 IF h.major # 5 THEN Throw(DesErr)
                 ELSE Bind(K_begin(out, 0), LAMBDA bg :
                      Bind(K_end(out, 0), LAMBDA en :
                        Ok([it |-> bg, last |-> en]))))} :
        IF r.ok
        THEN /\ loop' = [kv |-> 0, it |-> r.val.it, last |-> r.val.last,
                         seen |-> <<>>, steps |-> 0]
             /\ pc' = IF K_eq(r.val.it, r.val.last) THEN "keysdone" ELSE "keys"
             /\ res' = res
        ELSE /\ loop' = loop
             /\ pc' = "threw"
             /\ res' = [op |-> "mapKeys", err |-> r.err]
  /\ UNCHANGED <<w, calls, out, load, inp>>

\* One round of the loop: *it, ++it, it != end().
CborKeysStep ==
  /\ pc = "keys" /\ inp.op = "mapKeys"
  /\ \E r \in {Bind(K_deref(out, loop.it), LAMBDA k :
               Bind(K_next(out, loop.it), LAMBDA nx :
                 Ok([k |-> k, it |-> nx])))} :
        IF r.ok
        THEN /\ loop' = [loop EXCEPT !.it = r.val.it, !.seen = Append(@, r.val.k),
                                     !.steps = @ + 1]
             /\ pc' = IF K_eq(r.val.it, loop.last) THEN "keysdone" ELSE "keys"
             /\ res' = res
        ELSE /\ loop' = loop
             /\ pc' = "threw"
             /\ res' = [op |-> "mapKeys", err |-> r.err]
  /\ UNCHANGED <<w, calls, out, load, inp>>

NextKeys == CborMapKeys \/ CborKeysStep \/ Translate

SpecKeys == InitKeys /\ [][NextKeys]_vars

(***************************************************************************)
(* Accessors.  A program writes one value with a codec, finishes, opens    *)
(* the codec's reader on the buffer and calls one accessor on the root.    *)
(***************************************************************************)
AccCodecs == {"zera", "msgpack", "cbor", "json"}

Accessors ==
  {"asBool", "asInt64", "asUInt64", "asDouble", "asString", "asStringView",
   "asBlob"}

\* Deserializer(bytes), of any codec.
A_open(codec, buf) ==
  IF codec = "json" THEN yyjson_read(buf) ELSE R_open(codec, buf)

\* The predicate of class cl on a view.
A_is(codec, v, cl) ==
  IF codec # "json" THEN R_is(codec, v, cl)
  ELSE Ok(CASE cl = "null"  -> J_isNull(v)
            [] cl = "bool"  -> J_isBool(v)
            [] cl = "int"   -> J_isInt(v)
            [] cl = "uint"  -> J_isUInt(v)
            [] cl = "float" -> J_isFloat(v)
            [] cl = "str"   -> J_isString(v)
            [] cl = "blob"  -> J_isBlob(v)
            [] cl = "map"   -> J_isMap(v)
            [] cl = "arr"   -> J_isArray(v))

\* Accessor acc called on a view.  asString() of the ZERA and MessagePack
\* readers is std::string(asStringView()).
A_call(codec, v, acc) ==
  IF codec = "json"
  THEN CASE acc = "asBool" -> J_asBool(v)
         [] acc = "asInt64" -> J_asIntN(v, 8)
         [] acc = "asUInt64" -> J_asUIntN(v, 8)
         [] acc = "asDouble" -> J_asDouble(v)
         [] acc \in {"asString", "asStringView"} -> J_asString(v)
         [] acc = "asBlob" -> J_asBlob(v)
  ELSE CASE acc = "asBool" -> R_asBool(codec, v)
         [] acc = "asInt64" -> R_asInt64(codec, v)
         [] acc = "asUInt64" -> R_asUInt64(codec, v)
         [] acc = "asDouble" -> R_asDouble(codec, v)
         [] acc = "asString" ->
              IF codec = "cbor" THEN C_asString(v) ELSE R_asStringView(codec, v)
         [] acc = "asStringView" -> R_asStringView(codec, v)
         [] acc = "asBlob" -> R_asBlob(codec, v)

AccInputs ==
  {[op |-> "access", src |-> c, vi |-> i, acc |-> a] :
     c \in AccCodecs, i \in 1..Len(TrValues), a \in Accessors}

\* The indices and the keys asked of a root: "", "a", "b", "c", "ab".
MaxIndex == 3

ChildKeys == {<<>>, <<97>>, <<98>>, <<99>>, <<97, 98>>}

ChildInputs ==
  {[op |-> "child", src |-> c, vi |-> i, idx |-> n, key |-> k] :
     c \in TrCodecs, i \in 1..Len(TrValues), n \in 0..MaxIndex, k \in ChildKeys}

R_contains(codec, v, key) ==
  CASE codec = "zera" -> Z_contains(v, key)
    [] codec = "msgpack" -> M_contains(v, key)
    [] codec = "cbor" -> C_contains(v, key)

\* The blobs written as JSON: up to MaxBlobLen bytes, each one of BlobBytes.
MaxBlobLen == 4

BlobBytes == {0, 77, 128, 251, 255}

BlobInputs ==
  {[op |-> "blob", b |-> b] :
     b \in UNION {[1..n -> BlobBytes] : n \in 0..MaxBlobLen}}

InitAcc ==
  /\ inp \in AccInputs \cup ChildInputs \cup BlobInputs
  /\ w = RootOf(IF inp.op = "blob" THEN "json" ELSE inp.src)
  /\ calls = <<>> /\ pc = "storing" /\ out = <<>>
  /\ loop = NoLoop /\ load = RichLoad
  /\ res = Idle

\* The value is written with the codec and finish() is called.
StoreValue ==
  /\ pc = "storing" /\ inp.op \in {"access", "child"}
  /\ \E w1 \in {Emit(w, TrValues[inp.vi])} : \E f \in {W_finish(w1)} :
        /\ w' = f.w
        /\ out' = f.out
        /\ pc' = IF w1.err # NoErr \/ f.w.err # NoErr THEN "failed" ELSE "stored"
  /\ UNCHANGED <<calls, loop, load, inp, res>>

\* Deserializer(out), the class predicates asked of the root, and the
\* accessor called on it.
Access ==
  /\ pc = "stored" /\ inp.op = "access"
  /\ \E o \in {A_open(inp.src, out)} :
       res' = [op |-> "access",
               is |-> [cl \in {"bool", "float", "str", "blob"} |->
                         Bind(o, LAMBDA v : A_is(inp.src, v, cl))],
               r  |-> Bind(o, LAMBDA v : A_call(inp.src, v, inp.acc))]
  /\ pc' = "accessed"
  /\ UNCHANGED <<w, calls, out, loop, load, inp>>

\* Deserializer(out), and on the root: arraySize(), [idx], [key] and
\* contains(key).
ChildAccess ==
  /\ pc = "stored" /\ inp.op = "child"
  /\ \E o \in {R_open(inp.src, out)} :
       res' = [op |-> "child",
               size     |-> Bind(o, LAMBDA v : R_arraySize(inp.src, v)),
               at       |-> Bind(o, LAMBDA v : R_at(inp.src, v, inp.idx)),
               get      |-> Bind(o, LAMBDA v : R_get(inp.src, v, inp.key)),
               contains |-> Bind(o, LAMBDA v : R_contains(inp.src, v, inp.key))]
  /\ pc' = "accessed"
  /\ UNCHANGED <<w, calls, out, loop, load, inp>>

\* serialize<JSON>(blob): binary(b) and finish().
StoreBlob ==
  /\ pc = "storing" /\ inp.op = "blob"
  /\ \E w1 \in {J_binary(w, inp.b)} : \E f \in {J_finish(w1)} :
        /\ w' = f.w
        /\ out' = f.out
        /\ pc' = IF w1.err # NoErr \/ f.w.err # NoErr THEN "failed" ELSE "stored"
  /\ UNCHANGED <<calls, loop, load, inp, res>>

\* JsonDeserializer(out): isBlob() and asBlob() of the root and the text in
\* its second element, and base64Decode(base64Encode(b)).
ReadBlob ==
  /\ pc = "stored" /\ inp.op = "blob"
  /\ \E o \in {yyjson_read(out)} :
       res' = [op     |-> "blob",
               isBlob |-> Bind(o, LAMBDA n : Ok(J_isBlob(n))),
               text   |-> Bind(o, LAMBDA n : Bind(J_at(n, 1), LAMBDA e : J_asString(e))),
               blob   |-> Bind(o, LAMBDA n : J_asBlob(n)),
               enc    |-> base64Encode(inp.b),
               dec    |-> base64Decode(base64Encode(inp.b))]
  /\ pc' = "accessed"
  /\ UNCHANGED <<w, calls, out, loop, load, inp>>

NextAcc == StoreValue \/ Access \/ ChildAccess \/ StoreBlob \/ ReadBlob

SpecAcc == InitAcc /\ [][NextAcc]_vars

(***************************************************************************)
(* Buffers no writer produced.  A program is handed a byte buffer,         *)
(* constructs a ZeraDeserializer on it and, when the constructor returns,  *)
(* reads from the root and from the views it reaches from the root.        *)
(***************************************************************************)
\* The 20 bytes parse_header() reads.
ZHeader(magic, version, flags, root_ofs, env_size, arena_ofs) ==
  LE32(magic) \o LE16(version) \o LE16(flags) \o LE32(root_ofs)
    \o LE32(env_size) \o LE32(arena_ofs)

\* Headers: magic, version and flags, each right or wrong.
HdrKinds ==
  {[magic |-> Magic,     version |-> Version,     flags |-> 1],
   [magic |-> Magic + 1, version |-> Version,     flags |-> 1],
   [magic |-> Magic,     version |-> Version + 1, flags |-> 1],
   [magic |-> Magic,     version |-> Version,     flags |-> 0],
   [magic |-> Magic,     version |-> Version,     flags |-> 3]}

HdrLens == {0, 19, 20, 32, 48, 64}

HdrRootOfs == {0, 1, 16, 17}

HdrEnvSizes == {0, 1, 15, 16, 17, 28, 32, 44}

HdrArenaOfs == {0, 16, 32, 40, 48, 64}

HdrInputs ==
  {[op |-> "hdr", kind |-> k, len |-> n, root_ofs |-> r, env_size |-> e,
    arena_ofs |-> a] :
     k \in HdrKinds, n \in HdrLens, r \in HdrRootOfs, e \in HdrEnvSizes,
     a \in HdrArenaOfs}

\* The first len bytes of the header followed by zeros.
HdrBuf(i) ==
  SubSeq(ZHeader(i.kind.magic, i.kind.version, i.kind.flags, i.root_ofs,
                 i.env_size, i.arena_ofs) \o Rep(64, 0),
         1, i.len)

\* A well-formed header before an envelope of pre zero bytes, the root
\* ValueRef and a tail, the padding up to the arena, and the arena.
MalBuf(i) ==
  With(Rep(i.pre, 0) \o i.vr \o i.tail, LAMBDA env :
    With(align_up(HeaderSize + Len(env), ArenaBaseAlign), LAMBDA arena_ofs :
      ZHeader(Magic, Version, 1, i.pre, Len(env), arena_ofs) \o env
        \o Rep(arena_ofs - HeaderSize - Len(env), 0) \o i.arena))

MalArena == <<97, 98, 99, 100, 101, 102, 103, 104, 105, 106, 107, 108, 109, 110, 111, 112>>

\* Offsets and lengths a ValueRef may hold: inside, at the end of and outside
\* the envelopes and arenas built here.
MalWords == {LE32(0), LE32(255)}

MalScalars ==
  {[op |-> "mal", vr |-> make_vr(t, f, x, a, b, LE32(0)), pre |-> p,
    tail |-> <<>>, arena |-> <<>>] :
     t \in {TagNull, TagBool, TagI64, TagU64, TagF64, 9}, f \in {0, 1},
     x \in {0, 1, 2}, a \in MalWords, b \in MalWords, p \in {0, 12}}

MalStrings ==
  {[op |-> "mal", vr |-> make_vr(TagString, f, x, LE32(a), LE32(b), LE32(0)),
    pre |-> 0, tail |-> <<>>, arena |-> ar] :
     f \in {0, 1, 2, 3}, x \in {0, 3, 12, 13}, a \in {0, 8, 16, 17},
     b \in {0, 8, 16, 17}, ar \in {<<>>, MalArena}}

\* ValueRefs of elements and entries: null, a string outside the arena, an
\* array whose payload lies in the root ValueRef.
MalChildren ==
  {make_vr(TagNull, 0, 0, LE32(0), LE32(0), LE32(0)),
   make_vr(TagString, 0, 0, LE32(255), LE32(4), LE32(0)),
   make_vr(TagArray, 0, 0, LE32(12), LE32(0), LE32(0))}

\* What follows the root ValueRef of an array or object: nothing, a count
\* alone, a count and one element, a count and one entry, a count at the
\* very end of a 28-byte envelope.
MalTails ==
  {<<>>, Rep(8, 0) \o LE32(1)}
    \cup {LE32(n) : n \in {0, 1, 3}}
    \cup {LE32(n) \o c : n \in {1, 2, 3}, c \in MalChildren}
    \cup {LE32(n) \o LE16(kl) \o <<0, 0, 97>> \o c :
            n \in {1, 2}, kl \in {1, 2, 300}, c \in MalChildren}

MalContainers ==
  {[op |-> "mal", vr |-> make_vr(t, f, 0, LE32(a), LE32(0), LE32(c)),
    pre |-> p, tail |-> tl, arena |-> <<>>] :
     t \in {TagArray, TagObject}, f \in {0, 1},
     a \in {0, 12, 16, 24, 28, 36, 40, 255}, c \in {0, 1}, p \in {0, 12},
     tl \in MalTails}

\* What follows the root ValueRef of a blob: nothing, a rank alone, a rank
\* and one extent.
MalShapes ==
  {<<>>, LE32(1)}
    \cup {LE32(rank) \o W64(dim) : rank \in {0, 1, 2, 9}, dim \in {4, 16}}

MalBlobs ==
  {[op |-> "mal", vr |-> make_vr(TagTypedArray, 0, x, LE32(a), LE32(b), LE32(c)),
    pre |-> 0, tail |-> tl, arena |-> ar] :
     x \in {DTypeU8, 1}, a \in {0, 8, 17}, b \in {0, 4, 16, 255},
     c \in {0, 16, 20, 255}, tl \in MalShapes, ar \in {<<>>, MalArena}}

MalInputs == MalScalars \cup MalStrings \cup MalContainers \cup MalBlobs

\* How a call ended: it returned, or the class of the exception.
Outcome(r) == IF r.ok THEN "returns" ELSE r.err

\* The reader operations that take no argument or a key, by name.
ReadOps ==
  {"isNull", "isBool", "isInt", "isUInt", "isFloat", "isString", "isArray",
   "isMap", "isBlob", "asBool", "asInt8", "asInt16", "asInt32", "asInt64",
   "asUInt8", "asUInt16", "asUInt32", "asUInt64", "asDouble", "asStringView",
   "asBlob", "arraySize", "contains"}

Z_call(o, v) ==
  CASE o = "isNull"       -> is_tag(v, TagNull)
    [] o = "isBool"       -> is_tag(v, TagBool)
    [] o = "isInt"        -> is_tag(v, TagI64)
    [] o = "isUInt"       -> is_tag(v, TagU64)
    [] o = "isFloat"      -> is_tag(v, TagF64)
    [] o = "isString"     -> is_tag(v, TagString)
    [] o = "isArray"      -> is_tag(v, TagArray)
    [] o = "isMap"        -> is_tag(v, TagObject)
    [] o = "isBlob"       -> isBlob(v)
    [] o = "asBool"       -> Z_asBool(v)
    [] o = "asInt8"       -> Z_asIntN(v, 1)
    [] o = "asInt16"      -> Z_asIntN(v, 2)
    [] o = "asInt32"      -> Z_asIntN(v, 4)
    [] o = "asInt64"      -> Z_asInt64(v)
    [] o = "asUInt8"      -> Z_asUIntN(v, 1)
    [] o = "asUInt16"     -> Z_asUIntN(v, 2)
    [] o = "asUInt32"     -> Z_asUIntN(v, 4)
    [] o = "asUInt64"     -> Z_asUInt64(v)
    [] o = "asDouble"     -> Z_asDouble(v)
    [] o = "asStringView" -> Z_asStringView(v)
    [] o = "asBlob"       -> Z_asBlob(v)
    [] o = "arraySize"    -> Z_arraySize(v)
    [] o = "contains"     -> Z_contains(v, <<97>>)

\* v[i] and v[k], by the index or key.
MalSelectors ==
  {[by |-> "index", i |-> i] : i \in 0..2}
    \cup {[by |-> "key", k |-> k] : k \in {<<97>>, <<98>>}}

Z_select(v, s) == IF s.by = "index" THEN Z_at(v, s.i) ELSE Z_get(v, s.k)

\* The longest chain of v[..] calls from the root.
MaxDepth == 2

InitMal ==
  /\ inp \in HdrInputs \cup MalInputs
  /\ out = (IF inp.op = "hdr" THEN HdrBuf(inp) ELSE MalBuf(inp))
  /\ w = ZeraRoot /\ calls = <<>> /\ pc = "stored"
  /\ loop = NoLoop /\ load = Throw(NoErr)
  /\ res = [op |-> "none", r |-> "returns"]

\* ZeraDeserializer(buf)
Construct ==
  /\ pc = "stored"
  /\ \E r \in {init_from(out)} :
        /\ load' = r
        /\ res' = [op |-> "construct", r |-> Outcome(r)]
        /\ pc' = IF r.ok THEN "open" ELSE "rejected"
  /\ UNCHANGED <<w, calls, out, loop, inp>>

\* Every predicate and accessor is called on the view at hand.
ReadView ==
  /\ pc = "open"
  /\ res' = [op |-> "read", r |-> [o \in ReadOps |-> Outcome(Z_call(o, load.val))]]
  /\ pc' = "read"
  /\ UNCHANGED <<w, calls, out, loop, load, inp>>

\* v[i] or v[k]: the program goes on with the view returned.
Descend ==
  /\ pc = "read" /\ Len(calls) < MaxDepth
  /\ \E s \in MalSelectors : \E r \in {Z_select(load.val, s)} :
        /\ calls' = Append(calls, s)
        /\ load' = IF r.ok THEN r ELSE load
        /\ res' = [op |-> "select", r |-> Outcome(r)]
        /\ pc' = IF r.ok THEN "open" ELSE "failed"
  /\ UNCHANGED <<w, out, loop, inp>>

\* v.mapKeys().begin() or .end()
KeysOpen ==
  /\ pc = "read"
  /\ \E r \in {Z_mapKeys(load.val)} :
        /\ res' = [op |-> "mapKeys", r |-> Outcome(r)]
        /\ pc' = IF r.ok THEN "keys" ELSE "failed"
        /\ IF r.ok
           THEN \E it \in {KV_begin(r.val), KV_end(r.val)} :
                  loop' = [NoLoop EXCEPT !.it = it]
           ELSE loop' = loop
  /\ UNCHANGED <<w, calls, out, load, inp>>

\* *it
KeysDeref ==
  /\ pc = "keys"
  /\ res' = [op |-> "deref", r |-> Outcome(KV_deref(loop.it))]
  /\ pc' = "deref"
  /\ UNCHANGED <<w, calls, out, loop, load, inp>>

\* ++it
KeysNext ==
  /\ pc \in {"keys", "deref"}
  /\ \E r \in {KV_next(loop.it)} :
        /\ res' = [op |-> "next", r |-> Outcome(r)]
        /\ loop' = IF r.ok THEN [loop EXCEPT !.it = r.val] ELSE loop
        /\ pc' = IF r.ok THEN "keys" ELSE "failed"
  /\ UNCHANGED <<w, calls, out, load, inp>>

NextMal == Construct \/ ReadView \/ Descend \/ KeysOpen \/ KeysDeref \/ KeysNext

SpecMal == InitMal /\ [][NextMal]_vars

(***************************************************************************)
(* The walk of write_value, call by call.  The recursion of write_value    *)
(* over a ZERA buffer is kept as a stack of frames, one per container      *)
(* whose loop is running: [v, kind, i, n, ks], v the container's view, i   *)
(* the rounds done, n the rounds to do, ks the keys of a map.  The writer  *)
(* is the one that keeps its calls.  The views of one buffer differ in     *)
(* their ValueRef offset only and write_value reads nothing else, so a     *)
(* container entered while its own loop is running is entered again in     *)
(* each of its rounds, and none of these calls returns: pc = "recursing".  *)
(***************************************************************************)
\* An envelope env with the root ValueRef at offset root, and no arena.
WalkBuf(env, root) ==
  With(align_up(HeaderSize + Len(env), ArenaBaseAlign), LAMBDA arena_ofs :
    ZHeader(Magic, Version, 1, root, Len(env), arena_ofs) \o env
      \o Rep(arena_ofs - HeaderSize - Len(env), 0))

\* Envelopes no writer produces: an array whose only element is the array
\* itself; an array of an array whose only element is itself; an object
\* whose entry "a" is the object itself; an array of null whose count is 3.
WalkEnvelopes ==
  << [env |-> Rep(8, 0) \o LE32(1)
                \o make_vr(TagArray, 0, 0, LE32(8), LE32(0), LE32(0)),
      root |-> 12],
     [env |-> make_vr(TagArray, 0, 0, LE32(16), LE32(0), LE32(0)) \o LE32(1)
                \o make_vr(TagArray, 0, 0, LE32(16), LE32(0), LE32(0)),
      root |-> 0],
     [env |-> LE32(1) \o LE16(1) \o <<0, 0, 97>>
                \o make_vr(TagObject, 0, 0, LE32(0), LE32(0), LE32(0)),
      root |-> 9],
     [env |-> make_vr(TagArray, 0, 0, LE32(16), LE32(0), LE32(0)) \o LE32(3)
                \o make_vr(TagNull, 0, 0, LE32(0), LE32(0), LE32(0)),
      root |-> 0] >>

\* Those of MalContainers whose root ValueRef is at offset 0 with the flags
\* and the third word 0, and the payload at offset 0, 16 or 255.
WalkContainers ==
  {m \in MalContainers :
     /\ m.pre = 0 /\ m.vr[2] = 0 /\ Slice(m.vr, 12, 4) = LE32(0)
     /\ Slice(m.vr, 4, 4) \in {LE32(0), LE32(16), LE32(255)}}

\* The buffers walked: the values of TrValues as the ZERA writer writes them,
\* the envelopes above, and the arrays and objects of WalkContainers.
WalkInputs ==
  {[op |-> "walk", from |-> "writer", vi |-> i] : i \in 1..Len(TrValues)}
    \cup {[op |-> "walk", from |-> "envelope", vi |-> i] : i \in 1..Len(WalkEnvelopes)}
    \cup {[op |-> "walk", from |-> "mal", mal |-> m] : m \in WalkContainers}

WalkSource(i) ==
  CASE i.from = "writer" -> W_finish(Emit(ZeraRoot, TrValues[i.vi])).out
    [] i.from = "envelope" -> WalkBuf(WalkEnvelopes[i.vi].env, WalkEnvelopes[i.vi].root)
    [] i.from = "mal" -> MalBuf(i.mal)

\* The walker after a call: the writer, the stack, and where it stands.
Walker(ws, st, at) == [w |-> ws, st |-> st, pc |-> at]

Returned(ws, st) ==
  Walker(ws, st, IF ws.err # NoErr THEN "threw"
                 ELSE IF st = <<>> THEN "walked" ELSE "walking")

\* write_value(v, w) up to its first recursive call or, for a value that is
\* no container, to its return: cl is the class of v, ks the keys of a map,
\* n the rounds of the loop.
WalkValue(v, ws, st) ==
  \E cl \in {first_class("zera", v, 1)} :
  \E ks \in {IF cl.ok /\ cl.val = "map" THEN Z_keys(v) ELSE Ok(<<>>)} :
  \E n \in {IF cl.ok /\ cl.val = "arr" THEN Z_arraySize(v)
            ELSE Bind(ks, LAMBDA k : Ok(Len(k)))} :
  \E w1 \in {IF ~cl.ok THEN Escapes(ws, cl)
             ELSE IF cl.val \notin {"arr", "map"} THEN write_value("zera", v, ws)
             ELSE IF ~ks.ok THEN Escapes(ws, ks)
             ELSE IF ~n.ok THEN Escapes(ws, n)
             ELSE IF cl.val = "arr" THEN W_begin_array(ws, n.val)
             ELSE W_begin_map(ws, n.val)} :
  \E nx \in {IF w1.err # NoErr \/ cl.val \notin {"arr", "map"} THEN Returned(w1, st)
             ELSE IF \E j \in 1..Len(st) : st[j].v = v THEN Walker(w1, st, "recursing")
             ELSE Walker(w1,
                         Append(st, [v |-> v, kind |-> cl.val, i |-> 0, n |-> n.val,
                                     ks |-> ks.val]),
                         "walking")} :
     w' = nx.w /\ loop' = nx.st /\ pc' = nx.pc

InitWalk ==
  /\ inp \in WalkInputs
  /\ out = WalkSource(inp)
  /\ w = CallsRoot /\ calls = <<>> /\ pc = "stored"
  /\ loop = <<>> /\ load = Throw(NoErr)
  /\ res = [op |-> "none", r |-> "returns"]

\* write_value(root, w)
WalkRoot ==
  /\ pc = "open"
  /\ \E v \in {load.val} : WalkValue(v, w, <<>>)
  /\ UNCHANGED <<calls, out, load, inp, res>>

\* One round of the loop of the innermost container f, up to the recursive
\* call it makes, or the end of the loop and the return.
WalkStep ==
  /\ pc = "walking"
  /\ \E f \in {loop[Len(loop)]} :
     \E w1 \in {IF f.i >= f.n
                THEN IF f.kind = "arr" THEN W_end_array(w) ELSE W_end_map(w)
                ELSE IF f.kind = "arr" THEN w ELSE W_key(w, f.ks[f.i + 1])} :
     \E e \in {IF f.i >= f.n THEN Ok(f.v)
               ELSE IF f.kind = "arr" THEN Z_at(f.v, f.i) ELSE Z_get(f.v, f.ks[f.i + 1])} :
     \E st \in {IF f.i >= f.n THEN SubSeq(loop, 1, Len(loop) - 1)
                ELSE [loop EXCEPT ![Len(loop)].i = @ + 1]} :
        IF f.i >= f.n \/ w1.err # NoErr \/ ~e.ok
        THEN \E nx \in {Returned(IF w1.err = NoErr /\ ~e.ok THEN Escapes(w1, e) ELSE w1,
                                 st)} :
               w' = nx.w /\ loop' = nx.st /\ pc' = nx.pc
        ELSE \E v \in {e.val} : WalkValue(v, w1, st)
  /\ UNCHANGED <<calls, out, load, inp, res>>

NextWalk == Construct \/ WalkRoot \/ WalkStep

\* The program runs on one thread to its end: a step that can be taken is
\* taken.
SpecWalk == InitWalk /\ [][NextWalk]_vars /\ WF_vars(NextWalk)

(***************************************************************************)
(* Cut buffers.  A program is handed the first cut bytes of a valid         *)
(* MessagePack or CBOR encoding, opens the codec's reader on them and      *)
(* calls the reader's operations on the root.                              *)
(***************************************************************************)
TruncCodecs == {"msgpack", "cbor"}

\* Valid encodings no writer here produces: the wider string, bin, array
\* and map headers and the narrower numbers of MessagePack; half and double
\* floats, indefinite-length items and wider heads of CBOR.
HandDocs(codec) ==
  IF codec = "msgpack"
  THEN << <<217, 2, 97, 98>>, <<218, 0, 1, 97>>, <<197, 0, 2, 7, 8>>,
          <<220, 0, 1, 192>>, <<222, 0, 1, 161, 97, 192>>,
          <<202, 63, 192, 0, 0>>, <<204, 200>>, <<209, 255, 0>>,
          <<206, 0, 1, 0, 0>>, <<145, 163, 97, 98, 99>>,
          <<129, 163, 97, 98, 99, 196, 2, 7, 8>>,
          <<130, 161, 98, 1, 161, 97, 203, 63, 248, 0, 0, 0, 0, 0, 0>> >>
  ELSE << <<249, 62, 0>>, <<251, 63, 248, 0, 0, 0, 0, 0, 0>>,
          <<250, 63, 192, 0, 0>>, <<25, 1, 0>>, <<57, 1, 0>>,
          <<120, 2, 97, 98>>, <<88, 2, 7, 8>>, <<127, 97, 97, 97, 98, 255>>,
          <<159, 1, 97, 97, 255>>, <<191, 97, 97, 1, 255>>,
          <<130, 99, 97, 98, 99, 249, 62, 0>>,
          <<162, 97, 98, 1, 97, 97, 251, 63, 248, 0, 0, 0, 0, 0, 0>>,
          <<161, 97, 97, 99, 97, 98, 99>> >>

\* The encodings cut: those the writer gives for TrValues, then HandDocs.
TruncDocs(codec) ==
  [i \in 1..Len(TrValues) |-> W_finish(Emit(RootOf(codec), TrValues[i])).out]
    \o HandDocs(codec)

\* A strict prefix: cut is less than the length of the encoding.
TruncInputs ==
  UNION {UNION {{[op |-> "trunc", src |-> c, doc |-> d, cut |-> n] :
                   n \in 0..(Len(TruncDocs(c)[d]) - 1)} :
                d \in 1..(Len(TrValues) + Len(HandDocs(c)))} :
         c \in TruncCodecs}

\* The operations on the root itself, and those that look for a child.
TruncRootOps ==
  {"isNull", "isBool", "isInt", "isUInt", "isFloat", "isString", "isBlob",
   "isMap", "isArray", "asBool", "asInt64", "asUInt64", "asDouble",
   "asString", "asStringView", "asBlob", "arraySize"}

TruncChildOps == {"at0", "at1", "at2", "get_a", "get_b", "contains_a",
                  "contains_b", "mapKeys"}

\* A returned subview, by what identifies it: the bytes of a MessagePack
\* view, the position of a CBOR view.
T_sub(codec, r) == IF r.ok /\ codec = "cbor" THEN Ok(r.val.pos) ELSE r

T_call(codec, v, o) ==
  CASE o = "isNull"       -> R_is(codec, v, "null")
    [] o = "isBool"       -> R_is(codec, v, "bool")
    [] o = "isInt"        -> R_is(codec, v, "int")
    [] o = "isUInt"       -> R_is(codec, v, "uint")
    [] o = "isFloat"      -> R_is(codec, v, "float")
    [] o = "isString"     -> R_is(codec, v, "str")
    [] o = "isBlob"       -> R_is(codec, v, "blob")
    [] o = "isMap"        -> R_is(codec, v, "map")
    [] o = "isArray"      -> R_is(codec, v, "arr")
    [] o = "asBool"       -> R_asBool(codec, v)
    [] o = "asInt64"      -> R_asInt64(codec, v)
    [] o = "asUInt64"     -> R_asUInt64(codec, v)
    [] o = "asDouble"     -> R_asDouble(codec, v)
    [] o = "asString"     ->
         IF codec = "cbor" THEN C_asString(v) ELSE R_asStringView(codec, v)
    [] o = "asStringView" -> R_asStringView(codec, v)
    [] o = "asBlob"       -> R_asBlob(codec, v)
    [] o = "arraySize"    -> R_arraySize(codec, v)
    [] o = "at0"          -> T_sub(codec, R_at(codec, v, 0))
    [] o = "at1"          -> T_sub(codec, R_at(codec, v, 1))
    [] o = "at2"          -> T_sub(codec, R_at(codec, v, 2))
    [] o = "get_a"        -> T_sub(codec, R_get(codec, v, <<97>>))
    [] o = "get_b"        -> T_sub(codec, R_get(codec, v, <<98>>))
    [] o = "contains_a"   -> R_contains(codec, v, <<97>>)
    [] o = "contains_b"   -> R_contains(codec, v, <<98>>)
    [] o = "mapKeys"      -> R_keys(codec, v)

\* Operation o on the cut buffer: how it ended, and whether it ended as it
\* does on the whole encoding, which is when it needed none of the bytes
\* cut off.
T_cut(codec, cut, whole, o) ==
  \* both readers open on any bytes
  With(T_call(codec, R_open(codec, cut).val, o), LAMBDA rc :
    [out  |-> Outcome(rc),
     same |-> Outcome(rc) = Outcome(T_call(codec, R_open(codec, whole).val, o))
                /\ (rc.ok => rc.val = T_call(codec, R_open(codec, whole).val, o).val)])

InitTrunc ==
  /\ inp \in TruncInputs
  /\ out = SubSeq(TruncDocs(inp.src)[inp.doc], 1, inp.cut)
  /\ w = RootOf(inp.src) /\ calls = <<>> /\ pc = "stored"
  /\ loop = NoLoop /\ load = RichLoad
  /\ res = Idle

\* Every predicate and accessor is called on the root.
TruncRead ==
  /\ pc = "stored" /\ inp.op = "trunc"
  /\ res' = [op |-> "read",
             r  |-> [o \in TruncRootOps |->
                       T_cut(inp.src, out, TruncDocs(inp.src)[inp.doc], o)]]
  /\ pc' = "read"
  /\ UNCHANGED <<w, calls, out, loop, load, inp>>

\* v[i], v[k], contains(k) and the loop over mapKeys() are called on the
\* root.
TruncChild ==
  /\ pc = "stored" /\ inp.op = "trunc"
  /\ res' = [op |-> "child",
             r  |-> [o \in TruncChildOps |->
                       T_cut(inp.src, out, TruncDocs(inp.src)[inp.doc], o)]]
  /\ pc' = "child"
  /\ UNCHANGED <<w, calls, out, loop, load, inp>>

NextTrunc == TruncRead \/ TruncChild

SpecTrunc == InitTrunc /\ [][NextTrunc]_vars

(***************************************************************************)
(* String placement.  The program of Spec on the ZERA writer, with         *)
(* set_inline_string_threshold() called at most once, at any point, and    *)
(* strings of 0, 3, 12, 13 and 14 bytes written at the root or into        *)
(* arrays, next to a blob that leaves the arena 3 bytes long.              *)
(***************************************************************************)
set_inline_string_threshold(ws, t) ==
  IF t > InlineMax
  THEN Raise(ws, SerErr, "zera: inline string threshold must be <= 12")
  ELSE [ws EXCEPT !.inline_threshold = t]

Thresholds == {0, 3, InlineMax, InlineMax + 1, 255}

S14 == S13 \o <<110>>

\* Calls of one program, finish() not counted.
MaxStrCalls == 5

StrLoad ==
  [vals |-> MaxStrCalls, keys |-> 0, ends |-> MaxStrCalls, total |-> MaxStrCalls,
   hints |-> {0}, strs |-> {<<>>, <<120, 0, 121>>, S12, S13, S14},
   blobs |-> {<<7, 8, 9>>}, keyset |-> {}]

InitStr ==
  /\ w = ZeraRoot
  /\ calls = <<>>
  /\ pc = "writing"
  /\ out = <<>>
  /\ loop = NoLoop
  /\ load = StrLoad
  /\ inp = Idle
  /\ res = Idle

SetThreshold ==
  /\ CanCall /\ NCalls(calls, {"set_inline_string_threshold"}) = 0
  /\ \E t \in Thresholds :
       Step(set_inline_string_threshold(w, t), Call("set_inline_string_threshold", t))

NextStr == SetThreshold \/ String \/ Binary \/ BeginArray \/ EndArray \/ Finish

SpecStr == InitStr /\ [][NextStr]_vars

(***************************************************************************)
(* Tensor adapters (tensor/xtensor.hpp, tensor/eigen.hpp, tensor/utils.hpp) *)
(* A size_t is a 64-bit word.                                              *)
(***************************************************************************)
\* a * m + c for a byte m, one byte longer than a.
RECURSIVE MulByte(_, _, _)
MulByte(x, m, cy) ==
  IF x = <<>> THEN <<cy>>
  ELSE LET p == x[1] * m + cy
       IN  <<p % 256>> \o MulByte(Tail(x), m, p \div 256)

\* The exact product x * y, Len(x) + Len(y) bytes long.
RECURSIVE MulLE(_, _)
MulLE(x, y) ==
  IF y = <<>> THEN Rep(Len(x), 0)
  ELSE AddLE(MulByte(x, y[1], 0) \o Rep(Len(y) - 1, 0),
             <<0>> \o MulLE(x, Tail(y)), 0)

\* x without its most significant zero bytes.
RECURSIVE Norm(_)
Norm(x) ==
  IF x = <<>> \/ x[Len(x)] # 0 THEN x ELSE Norm(SubSeq(x, 1, Len(x) - 1))

\* x * y in size_t arithmetic: the product modulo 2^64.
size_mul(x, y) == SubSeq(MulLE(x, y), 1, 8)

\* The element types T: sizeof(T), alignof(T) and tensor_dtype_index<T>
\* (sizes and alignments of the LP64 targets the library builds for).
TypeInfo(T) ==
  CASE T = "int8_t"          -> [size |-> 1,  align |-> 1, dtype |-> 0]
    [] T = "int16_t"         -> [size |-> 2,  align |-> 2, dtype |-> 1]
    [] T = "int32_t"         -> [size |-> 4,  align |-> 4, dtype |-> 2]
    [] T = "int64_t"         -> [size |-> 8,  align |-> 8, dtype |-> 3]
    [] T = "uint8_t"         -> [size |-> 1,  align |-> 1, dtype |-> 4]
    [] T = "uint16_t"        -> [size |-> 2,  align |-> 2, dtype |-> 5]
    [] T = "uint32_t"        -> [size |-> 4,  align |-> 4, dtype |-> 6]
    [] T = "uint64_t"        -> [size |-> 8,  align |-> 8, dtype |-> 7]
    [] T = "float"           -> [size |-> 4,  align |-> 4, dtype |-> 10]
    [] T = "double"          -> [size |-> 8,  align |-> 8, dtype |-> 11]
    [] T = "complex<float>"  -> [size |-> 8,  align |-> 4, dtype |-> 12]
    [] T = "complex<double>" -> [size |-> 16, align |-> 8, dtype |-> 13]
    [] T = "half_float"      -> [size |-> 2,  align |-> 2, dtype |-> 14]

\* std::numeric_limits<TensorShapeElement>::max(), TensorShapeElement = uint32_t.
ShapeElementMax == UIntMax(4)

\* tensor_shape(d) over the elements of the shape array, each [cls, val]:
\* its class ("uint", "int" or another) and its integer value.
RECURSIVE tensor_shape(_)
tensor_shape(elems) ==
  IF elems = <<>> THEN Ok(<<>>)
  ELSE LET e    == elems[1]
           rest == tensor_shape(Tail(elems))
       IN  IF e.cls = "uint"
           THEN IF MLt(ShapeElementMax, e.val) THEN Throw(DesErr)
                ELSE IF ~rest.ok THEN rest ELSE Ok(<<e.val.mag>> \o rest.val)
           ELSE IF e.cls = "int"
           THEN IF e.val.neg THEN Throw(DesErr)
                ELSE IF MLt(ShapeElementMax, e.val) THEN Throw(DesErr)
                ELSE IF ~rest.ok THEN rest ELSE Ok(<<e.val.mag>> \o rest.val)
           ELSE Throw(DesErr)

\* The loop of checked_element_count() from count on.  count > SIZE_MAX / dim
\* holds exactly when the product count * dim does not fit in 64 bits.
RECURSIVE element_count_from(_, _)
element_count_from(shape, count) ==
  IF shape = <<>> THEN Ok(count)
  ELSE IF shape[1] = Zero64 THEN Ok(Zero64)
  ELSE IF SubSeq(MulLE(count, shape[1]), 9, 16) # Zero64 THEN Throw(DesErr)
  ELSE element_count_from(Tail(shape), size_mul(count, shape[1]))

checked_element_count(shape) == element_count_from(shape, W64(1))

\* Variant of the TensorViewInfo that reports every span as a view.
view_info_unchecked(span_backed, address, align, byte_size) ==
  [zero_copy |-> span_backed,
   reason |-> IF span_backed THEN "Ok" ELSE "NotSpanBacked",
   required_alignment |-> align, address |-> address, byte_size |-> byte_size]

\* The TensorViewInfo both adapters build once the size check has passed:
\* make_copy() for an owning blob, else the alignment test.
view_info(span_backed, address, align, byte_size) ==
  IF ~span_backed
  THEN [zero_copy |-> FALSE, reason |-> "NotSpanBacked",
        required_alignment |-> align, address |-> address, byte_size |-> byte_size]
  ELSE IF address % align # 0
  THEN [zero_copy |-> FALSE, reason |-> "Misaligned",
        required_alignment |-> align, address |-> address, byte_size |-> byte_size]
  ELSE [zero_copy |-> TRUE, reason |-> "Ok",
        required_alignment |-> align, address |-> address, byte_size |-> byte_size]

\* asXTensorView<T>(buf) on a tensor message m = [dtype, shape, blob]: the
\* dtype code stored, the elements of the shape array, and the blob asBlob()
\* returns: whether it is a span, its address and its size.
asXTensorView(T, m) ==
  LET ti == TypeInfo(T)
  IN  IF m.dtype # ti.dtype THEN Throw(DesErr)
      ELSE LET vshape == tensor_shape(m.shape)
           IN  IF ~vshape.ok THEN vshape
               ELSE LET ec == checked_element_count(vshape.val)
                    IN  IF ~ec.ok THEN ec
                        ELSE IF W64(m.blob.size) # size_mul(ec.val, W64(ti.size))
                        THEN Throw(DesErr)
                        ELSE Ok(view_info(m.blob.span, m.blob.address, ti.align,
                                          m.blob.size))

\* asEigenMatrixView<T, Dynamic, Dynamic>(buf) on the same.
asEigenMatrixView(T, m) ==
  LET ti == TypeInfo(T)
  IN  IF m.dtype # ti.dtype THEN Throw(DesErr)
      ELSE LET vshape == tensor_shape(m.shape)
           IN  IF ~vshape.ok THEN vshape
               ELSE IF Len(vshape.val) # 2 THEN Throw(DesErr)
               ELSE LET rows == vshape.val[1]
                        cols == vshape.val[2]
                    IN  IF W64(m.blob.size) #
                             size_mul(size_mul(rows, cols), W64(ti.size))
                        THEN Throw(DesErr)
                        ELSE Ok(view_info(m.blob.span, m.blob.address, ti.align,
                                          m.blob.size))

\* The tensor messages tried.  Dimensions as integers: 2^30, 2^31, 2^32 - 1
\* (the largest a shape element holds), 2^32 and -1 among them.
P2_30 == MI(FALSE, <<0, 0, 0, 64, 0, 0, 0, 0>>)

P2_31 == MI(FALSE, <<0, 0, 0, 128, 0, 0, 0, 0>>)

P2_32 == MI(FALSE, <<0, 0, 0, 0, 1, 0, 0, 0>>)

DimArgs ==
  {[cls |-> "uint", val |-> Pos(0)], [cls |-> "uint", val |-> Pos(1)],
   [cls |-> "uint", val |-> Pos(2)], [cls |-> "int", val |-> Pos(3)],
   [cls |-> "uint", val |-> P2_30], [cls |-> "uint", val |-> P2_31],
   [cls |-> "uint", val |-> UIntMax(4)], [cls |-> "uint", val |-> P2_32],
   [cls |-> "int", val |-> Minus(1)], [cls |-> "str", val |-> Pos(0)]}

\* The largest rank tried.
MaxRank == 2

ShapeArgs == UNION {[1..n -> DimArgs] : n \in 0..MaxRank}

TensorTypes == {"int8_t", "int16_t", "float", "double", "complex<double>"}

\* Where the buffer holding the blob starts (16-aligned) and how far in the
\* blob lies: 16 consecutive offsets.
BaseAddress == 4096

BlobOffsets == 0..15

BlobSizes == {0, 16}

TensorInputs ==
  [op : {"tensor"}, T : TensorTypes, dtype : {10, 11}, shape : ShapeArgs,
   blob : [span : BOOLEAN, address : {BaseAddress + o : o \in BlobOffsets},
           size : BlobSizes]]

InitTensor ==
  /\ w = ZeraRoot /\ calls = <<>> /\ pc = "reading" /\ out = <<>>
  /\ loop = NoLoop /\ load = RichLoad
  /\ inp \in TensorInputs
  /\ res = Idle

XTensorView ==
  /\ pc = "reading" /\ inp.op = "tensor"
  /\ res' = [op |-> "asXTensorView", r |-> asXTensorView(inp.T, inp)]
  /\ pc' = "read"
  /\ UNCHANGED <<w, calls, out, loop, load, inp>>

EigenMatrixView ==
  /\ pc = "reading" /\ inp.op = "tensor"
  /\ res' = [op |-> "asEigenMatrixView", r |-> asEigenMatrixView(inp.T, inp)]
  /\ pc' = "read"
  /\ UNCHANGED <<w, calls, out, loop, load, inp>>

NextTensor == XTensorView \/ EigenMatrixView

SpecTensor == InitTensor /\ [][NextTensor]_vars

(***************************************************************************)
(* The value a well-formed sequence of calls describes: a record [t, v],   *)
(* t the class; v the payload: the elements of an array in order, the      *)
(* entries [k, v] of a map in order.                                       *)
(***************************************************************************)
Val(t, v) == [t |-> t, v |-> v]

ScalarOf(call) ==
  CASE call.op = "null"    -> Val("null", 0)
    [] call.op = "boolean" -> Val("bool", call.arg)
    [] call.op = "int64"   -> Val("int", call.arg)
    [] call.op = "uint64"  -> Val("uint", call.arg)
    [] call.op = "double"  -> Val("float", call.arg)
    [] call.op = "string"  -> Val("str", call.arg)
    [] call.op = "binary"  -> Val("blob", call.arg)

\* The value that starts at call i of cs, and the index after its last call.
RECURSIVE ValueAt(_, _), ElemsAt(_, _, _), EntriesAt(_, _, _)
ValueAt(cs, i) ==
  CASE cs[i].op = "begin_array" -> ElemsAt(cs, i + 1, <<>>)
    [] cs[i].op = "begin_map"   -> EntriesAt(cs, i + 1, <<>>)
    [] OTHER -> [val |-> ScalarOf(cs[i]), next |-> i + 1]

ElemsAt(cs, i, acc) ==
  IF cs[i].op = "end_array" THEN [val |-> Val("arr", acc), next |-> i + 1]
  ELSE LET r == ValueAt(cs, i) IN ElemsAt(cs, r.next, Append(acc, r.val))

EntriesAt(cs, i, acc) ==
  IF cs[i].op = "end_map" THEN [val |-> Val("map", acc), next |-> i + 1]
  ELSE LET r == ValueAt(cs, i + 1)
       IN  EntriesAt(cs, r.next, Append(acc, [k |-> cs[i].arg, v |-> r.val]))

\* The root value of a program that ended with finish(): null when nothing
\* was written.
Written(cs) == IF cs[1].op = "finish" THEN Val("null", 0) ELSE ValueAt(cs, 1).val

\* The first value stored under key k in the entries es.
FirstWith(es, k) == es[CHOOSE i \in 1..Len(es) : es[i].k = k /\ \A j \in 1..(i - 1) : es[j].k # k].v

KeysOf(es) == [i \in 1..Len(es) |-> es[i].k]

\* The classes whose predicate (isNull() .. isBlob()) holds of ZERA view v.
Z_classes(v) ==
  {cl \in {"null", "bool", "int", "uint", "float", "str", "arr", "map", "blob"} :
     LET r == CASE cl = "null"  -> is_tag(v, TagNull)
                [] cl = "bool"  -> is_tag(v, TagBool)
                [] cl = "int"   -> is_tag(v, TagI64)
                [] cl = "uint"  -> is_tag(v, TagU64)
                [] cl = "float" -> is_tag(v, TagF64)
                [] cl = "str"   -> is_tag(v, TagString)
                [] cl = "arr"   -> is_tag(v, TagArray)
                [] cl = "map"   -> is_tag(v, TagObject)
                [] cl = "blob"  -> isBlob(v)
     IN  r.ok /\ r.val}

\* Reading ZERA view v gives the value x: its class, its scalar or bytes, its
\* length and elements, its keys and the value under each key.
RECURSIVE Z_reads(_, _)
Z_reads(v, x) ==
  /\ Z_classes(v) = {x.t}
  /\ CASE x.t = "null"  -> TRUE
       [] x.t = "bool"  -> LET r == Z_asBool(v) IN r.ok /\ r.val = x.v
       [] x.t = "int"   -> LET r == Z_asInt64(v) IN r.ok /\ r.val = x.v
       [] x.t = "uint"  -> LET r == Z_asUInt64(v) IN r.ok /\ r.val = m_of_u64(x.v)
       [] x.t = "float" -> LET r == Z_asDouble(v) IN r.ok /\ r.val = x.v
       [] x.t = "str"   -> LET r == Z_asStringView(v) IN r.ok /\ r.val = x.v
       [] x.t = "blob"  -> LET r == Z_asBlob(v) IN r.ok /\ r.val.bytes = x.v
       [] x.t = "arr"   ->
            /\ LET r == Z_arraySize(v) IN r.ok /\ r.val = Len(x.v)
            /\ \A i \in 1..Len(x.v) :
                 LET e == Z_at(v, i - 1) IN e.ok /\ Z_reads(e.val, x.v[i])
            /\ ~Z_at(v, Len(x.v)).ok
       [] x.t = "map"   ->
            /\ LET r == Z_keys(v) IN r.ok /\ r.val = KeysOf(x.v)
            /\ \A i \in 1..Len(x.v) :
                 LET e == Z_get(v, x.v[i].k)
                 IN  e.ok /\ Z_reads(e.val, FirstWith(x.v, x.v[i].k))

(***************************************************************************)
(* Properties                                                              *)
(***************************************************************************)
ZeraDone == pc \in {"done", "keys", "keysdone", "threw"} /\ w.codec = "zera"

\* C1: a value written with the ZERA writer and read back from the bytes
\* finish() returned is the value written: same class, same scalar or bytes,
\* same array length and elements, same keys and the value under each key.
C1_RoundTrip ==
  ZeraDone => LET d == init_from(out) IN d.ok /\ Z_reads(d.val, Written(calls))

\* A map with a repeated key, a nested array, a 13-byte string (arena) and a
\* blob has been written and finished.
C1_Witness ==
  /\ ZeraDone /\ pc = "done"
  /\ \E i \in 1..Len(calls) : calls[i].op = "begin_map"
  /\ \E i \in 1..Len(calls) : calls[i] = Call("string", S13)
  /\ \E i, j \in 1..Len(calls) : i < j /\ calls[i].op = "key" /\ calls[j] = calls[i]

\* C7: iterating mapKeys() of a ZERA map written with keys k_1..k_n yields
\* exactly k_1..k_n in order and ends after exactly n steps: while the loop
\* runs it has yielded a proper prefix, when it ends it has yielded all n,
\* and it never throws.
C7_KeysPreserved ==
  (ZeraDone /\ Written(calls).t = "map") =>
     LET ks == KeysOf(Written(calls).v)
     IN  /\ pc # "threw"
         /\ pc = "keys" =>
               /\ loop.steps < Len(ks)
               /\ loop.seen = SubSeq(ks, 1, loop.steps)
         /\ pc = "keysdone" => loop.steps = Len(ks) /\ loop.seen = ks

\* The loop has ended over a map written with the key "a\0b" twice.
C7_Witness ==
  /\ pc = "keysdone" /\ Written(calls).t = "map"
  /\ loop.seen = << <<97, 0, 98>>, <<97, 0, 98>> >>

\* The views reachable from ZERA view v: v itself, the elements of an array,
\* the value of every entry of a map (found by walking the entries).
RECURSIVE Z_entry_vrs(_, _, _)
Z_entry_vrs(it, last, acc) ==
  IF KV_eq(it, last) THEN acc
  ELSE LET k == KV_deref(it)
       IN  Z_entry_vrs(KV_next(it).val, last, Append(acc, it.cur + 4 + Len(k.val)))

RECURSIVE Z_views(_)
Z_views(v) ==
  {v} \cup
  (IF Z_tag(v) = TagArray
   THEN UNION {Z_views(Z_at(v, i).val) : i \in 0..(Z_arraySize(v).val - 1)}
   ELSE IF Z_tag(v) = TagObject
   THEN LET kv  == Z_mapKeys(v).val
            vrs == Z_entry_vrs(KV_begin(kv), KV_end(kv), <<>>)
        IN  UNION {Z_views([v EXCEPT !.vr = vrs[i]]) : i \in 1..Len(vrs)}
   ELSE {})

Z_blobs(v) == {x \in Z_views(v) : isBlob(x).val}

\* Alignments up to 16.
Alignments == {1, 2, 4, 8, 16}

\* C9: in a finished ZERA buffer the arena starts at a buffer offset that is
\* a multiple of 16 and every blob payload lies at an arena offset that is a
\* multiple of 16; so when the buffer starts at a 16-aligned address every
\* blob address is a multiple of 16, and the tensor adapter reports
\* zero_copy = true for every alignment up to 16.
C9_BlobAlignment ==
  ZeraDone =>
    LET d == init_from(out).val
    IN  /\ d.arena_ofs % 16 = 0
        /\ \A x \in Z_blobs(d) :
             LET bl == Z_asBlob(x)
             IN  /\ bl.ok
                 /\ Z_a(x) % 16 = 0
                 /\ (BaseAddress + bl.val.at) % 16 = 0
                 /\ \A al \in Alignments :
                      view_info(TRUE, BaseAddress + bl.val.at, al,
                                Len(bl.val.bytes)).zero_copy

\* A finished buffer holds a blob written after a 13-byte string, which
\* left the arena 13 bytes long.
C9_Witness ==
  /\ ZeraDone
  /\ \E i, j \in 1..Len(calls) :
       /\ i < j
       /\ calls[i] = Call("string", S13)
       /\ calls[j] = Call("binary", <<7, 8, 9>>)

\* The adapter res.op applied to tensor message m.
Adapter(op, T, m) ==
  IF op = "asXTensorView" THEN asXTensorView(T, m) ELSE asEigenMatrixView(T, m)

\* C8: a tensor adapter that returns reports (zero_copy = true, Ok) when the
\* blob is a span at an address A with A mod alignof(T) = 0, (false,
\* Misaligned) when it is a span at another address, and (false,
\* NotSpanBacked) when the blob is owning; required_alignment is alignof(T)
\* and byte_size the blob's length; over 16 consecutive addresses exactly
\* 16 / alignof(T) views are zero-copy.
C8_ZeroCopyReporting ==
  (pc = "read" /\ inp.op = "tensor" /\ res.r.ok) =>
    LET info == res.r.val
        ti   == TypeInfo(inp.T)
    IN  /\ info.required_alignment = ti.align
        /\ info.byte_size = inp.blob.size
        /\ IF ~inp.blob.span
           THEN ~info.zero_copy /\ info.reason = "NotSpanBacked"
           ELSE IF inp.blob.address % ti.align = 0
           THEN info.zero_copy /\ info.reason = "Ok"
           ELSE ~info.zero_copy /\ info.reason = "Misaligned"
        /\ Cardinality({o \in BlobOffsets :
             LET r == Adapter(res.op, inp.T,
                              [inp EXCEPT !.blob.span = TRUE,
                                          !.blob.address = BaseAddress + o])
             IN  r.ok /\ r.val.zero_copy}) = 16 \div ti.align

\* asXTensorView<double> has returned a copy of a span-backed blob of 16
\* bytes that lies 4 bytes off an 8-byte boundary.
C8_Witness ==
  /\ pc = "read" /\ inp.op = "tensor" /\ res.op = "asXTensorView" /\ res.r.ok
  /\ inp.T = "double" /\ inp.blob.span /\ inp.blob.address % 8 = 4
  /\ inp.blob.size = 16 /\ res.r.val.reason = "Misaligned"

\* prod(shape) * size as an exact integer (no most significant zero bytes).
RECURSIVE ExactProduct(_, _)
ExactProduct(shape, acc) ==
  IF shape = <<>> THEN Norm(acc)
  ELSE ExactProduct(Tail(shape), Norm(MulLE(acc, shape[1])))

\* C10: a tensor adapter raises a deserialization error whenever the blob's
\* length differs from prod(shape) * sizeof(T) computed exactly, without
\* wrapping modulo 2^64.
C10_SizeValidated ==
  (pc = "read" /\ inp.op = "tensor") =>
    LET vshape == tensor_shape(inp.shape)
    IN  (vshape.ok /\
         Norm(W64(inp.blob.size)) #
           ExactProduct(vshape.val, W64(TypeInfo(inp.T).size)))
        => ~res.r.ok

\* What an accessor of width k bytes must do with the stored integer x: return
\* x when the requested type represents it, raise DeserializationError
\* otherwise.
RangeChecked(x, op, k) ==
  IF op = "asInt"
  THEN IF MLe(IntMin(k), x) /\ MLe(x, IntMax(k)) THEN Ok(x) ELSE Throw(DesErr)
  ELSE IF ~x.neg /\ MLe(x, UIntMax(k)) THEN Ok(x) ELSE Throw(DesErr)

\* C5: on a ZERA ValueRef tagged I64 or U64 that holds x, each of
\* asInt8/16/32/64 and asUInt8/16/32/64 returns x when the requested type
\* represents x and raises DeserializationError otherwise.
C5_ZeraRangeChecked ==
  (pc = "read" /\ inp.op = "int" /\ inp.codec = "zera") =>
     res.r = RangeChecked(inp.val, res.op, res.k)

\* asInt64 on U64 2^63+5 has raised.
C5_Witness ==
  /\ pc = "read" /\ inp.op = "int" /\ inp.codec = "zera"
  /\ inp.tag = "U64" /\ inp.val = m_of_u64(U63p5)
  /\ res.op = "asInt" /\ res.k = 8 /\ res.r = Throw(DesErr)

\* C3: in every codec's reader, asIntN and asUIntN on a stored integer
\* outside the range of the requested type raise DeserializationError, and
\* return exactly the stored integer when it is inside.
C3_WidthNarrowing ==
  (pc = "read" /\ inp.op = "int") => res.r = RangeChecked(inp.val, res.op, res.k)

\* C4: asInt64() of the MessagePack and CBOR readers on a stored unsigned
\* integer above INT64_MAX (marker 0xcf, major type 0 with an 8-byte
\* argument) raises DeserializationError.
C4_UInt64AboveInt64Max ==
  (/\ pc = "read" /\ inp.op = "int" /\ inp.codec \in {"msgpack", "cbor"}
   /\ inp.tag = "U64" /\ MLt(IntMax(8), inp.val)
   /\ out[1] = (IF inp.codec = "msgpack" THEN 207 ELSE 27)
   /\ res.op = "asInt" /\ res.k = 8)
  => res.r = Throw(DesErr)

\* The open containers after the calls cs, the innermost last, each with
\* pending: key() has been called and no value has followed; bad: some call
\* of cs was not allowed where it came.
ScalarOps == {"null", "boolean", "int64", "uint64", "double", "string", "binary"}

RECURSIVE Frames(_)
Frames(cs) ==
  IF cs = <<>> THEN [bad |-> FALSE, st |-> <<>>]
  ELSE LET f    == Frames(SubSeq(cs, 1, Len(cs) - 1))
           op   == cs[Len(cs)].op
           n    == Len(f.st)
           top  == f.st[n]
           inmap  == n > 0 /\ top.kind = "map"
           taken  == IF inmap THEN [f.st EXCEPT ![n].pending = FALSE] ELSE f.st
           Bad    == [f EXCEPT !.bad = TRUE]
       IN  IF f.bad THEN f
           ELSE IF op \in ScalarOps
           THEN IF inmap /\ ~top.pending THEN Bad ELSE [f EXCEPT !.st = taken]
           ELSE IF op \in {"begin_array", "begin_map"}
           THEN IF inmap /\ ~top.pending THEN Bad
                ELSE [f EXCEPT !.st = Append(taken,
                        [kind |-> IF op = "begin_map" THEN "map" ELSE "arr",
                         pending |-> FALSE])]
           ELSE IF op = "key"
           THEN IF ~inmap \/ top.pending THEN Bad
                ELSE [f EXCEPT !.st[n].pending = TRUE]
           ELSE IF op = "end_array"
           THEN IF n = 0 \/ top.kind # "arr" THEN Bad
                ELSE [f EXCEPT !.st = SubSeq(f.st, 1, n - 1)]
           ELSE IF op = "end_map"
           THEN IF ~inmap \/ top.pending THEN Bad
                ELSE [f EXCEPT !.st = SubSeq(f.st, 1, n - 1)]
           ELSE f

\* The last call came, after allowed calls only, in a map frame and was
\* end_map() with a key pending, a scalar value without a key, or
\* end_array().
MapFrameMisuse ==
  /\ calls # <<>>
  /\ LET f    == Frames(SubSeq(calls, 1, Len(calls) - 1))
         last == calls[Len(calls)]
         top  == f.st[Len(f.st)]
     IN  /\ ~f.bad /\ f.st # <<>> /\ top.kind = "map"
         /\ \/ last.op = "end_map" /\ top.pending
            \/ last.op \in ScalarOps /\ ~top.pending
            \/ last.op = "end_array"

\* C2: in every writer, end_map() while a key is pending, a value in a map
\* frame without a preceding key(), and end_array() while the innermost
\* open container is a map raise SerializationError.
C2_WriterProtocol == MapFrameMisuse => w.err = SerErr

\* Reading view v with the reader of codec gives the value x: an integer
\* through asInt64 when written signed and asUInt64 when written unsigned,
\* the bytes of a string or blob, the elements of an array in order, the
\* keys of a map in order and the value under each key.
RECURSIVE Reads(_, _, _)
Reads(codec, v, x) ==
  CASE x.t = "null"  -> R_is(codec, v, "null") = Ok(TRUE)
    [] x.t = "bool"  -> R_asBool(codec, v) = Ok(x.v)
    [] x.t = "int"   -> R_asInt64(codec, v) = Ok(x.v)
    [] x.t = "uint"  -> R_asUInt64(codec, v) = Ok(m_of_u64(x.v))
    [] x.t = "float" -> R_asDouble(codec, v) = Ok(x.v)
    [] x.t = "str"   -> R_asStringView(codec, v) = Ok(x.v)
    [] x.t = "blob"  -> R_asBlob(codec, v) = Ok(x.v)
    [] x.t = "arr"   ->
         /\ R_arraySize(codec, v) = Ok(Len(x.v))
         /\ \A i \in 1..Len(x.v) :
              LET e == R_at(codec, v, i - 1) IN e.ok /\ Reads(codec, e.val, x.v[i])
    [] x.t = "map"   ->
         /\ R_keys(codec, v) = Ok(KeysOf(x.v))
         /\ \A i \in 1..Len(x.v) :
              LET e == R_get(codec, v, x.v[i].k)
              IN  e.ok /\ Reads(codec, e.val, FirstWith(x.v, x.v[i].k))

\* C6: for codecs A and B among ZERA, MessagePack and CBOR and every value
\* v, writing v with A, reading it, translating the reader to B and reading
\* the result with B gives v.
C6_TranslateRoundTrip ==
  (pc = "translated" /\ inp.op = "translate") =>
     /\ res.r.ok
     /\ LET d == R_open(inp.dst, res.r.val)
        IN  d.ok /\ Reads(inp.dst, d.val, TrValues[inp.vi])

\* The last call is a scalar value at root level after a root value has
\* been emitted: the calls before it were allowed ones, emitted a value and
\* left no container open.
SecondRoot ==
  /\ Len(calls) > 1
  /\ LET f == Frames(SubSeq(calls, 1, Len(calls) - 1))
     IN  ~f.bad /\ f.st = <<>>
  /\ calls[Len(calls)].op \in ScalarOps

\* C11: in every writer a second value at root level, after a root value
\* has been emitted and with no container open, raises SerializationError.
C11_SingleRoot == SecondRoot => w.err = SerErr

\* isNull() of the root of a reader constructed on buf.
RootIsNull(codec, buf) ==
  CASE codec = "zera" -> Bind(init_from(buf), LAMBDA v : is_tag(v, TagNull))
    [] codec = "msgpack" -> Ok(M_isNull(buf))
    [] codec = "cbor" -> C_isNull(CborView(buf, 0))
    [] codec = "json" -> Bind(yyjson_read(buf), LAMBDA n : Ok(J_isNull(n)))

\* finish() was the only call made on the writer, and it returned.
DefaultRoot == pc = "done" /\ calls = <<Call("finish", 0)>>

\* C12: the buffer finish() returns on a freshly constructed writer has a
\* root for which the same codec's reader answers isNull() = true.
C12_DefaultRoot ==
  DefaultRoot =>
    LET r == RootIsNull(w.codec, out) IN r.ok /\ r.val

\* The keys of the input map, in wire order.
CkKeysOf(es) == [i \in 1..Len(es) |-> es[i].k]

\* C13: the loop over mapKeys() of a well-formed CBOR map of n entries with
\* text keys, of definite or indefinite length, raises no error, never takes
\* more than n rounds, and ends after exactly n rounds with the n keys in
\* wire order.
C13_CborMapKeys ==
  (inp.op = "mapKeys" /\ pc # "stored") =>
     /\ pc # "threw"
     /\ loop.steps <= Len(inp.entries)
     /\ pc = "keysdone" =>
          /\ loop.steps = Len(inp.entries)
          /\ loop.seen = CkKeysOf(inp.entries)

\* The root is of the class that accessor acc reads.
IsOfClass(cl) == res.is[cl].ok /\ res.is[cl].val

\* The accessor was called on a value of another class than the one it
\* reads: asBool() on a non-bool, asInt64() or asUInt64() on a string,
\* asDouble() on a non-float, asString() or asStringView() on a non-string,
\* asBlob() on a non-blob.
TypeMismatch ==
  /\ pc = "accessed" /\ inp.op = "access"
  /\ CASE inp.acc = "asBool" -> ~IsOfClass("bool")
       [] inp.acc \in {"asInt64", "asUInt64"} -> IsOfClass("str")
       [] inp.acc = "asDouble" -> ~IsOfClass("float")
       [] inp.acc \in {"asString", "asStringView"} -> ~IsOfClass("str")
       [] inp.acc = "asBlob" -> ~IsOfClass("blob")

HasEntry(x, key) == \E i \in 1..Len(x.v) : x.v[i].k = key

Raised(r) == ~r.ok /\ r.err = DesErr

\* C15: on a buffer written by the same codec's writer (ZERA, MessagePack,
\* CBOR), v[i] on an array raises DeserializationError exactly when
\* i >= arraySize() and returns otherwise, v[k] on a map raises it exactly
\* when no entry has key k and returns otherwise, contains(k) is true exactly
\* when v[k] returns, and contains(k) on a value that is not a map is false.
C15_ChildAccess ==
  (pc = "accessed" /\ inp.op = "child") =>
    LET x == TrValues[inp.vi]
    IN  /\ x.t = "arr" =>
             /\ res.size.ok /\ res.size.val = Len(x.v)
             /\ Raised(res.at) <=> inp.idx >= res.size.val
             /\ res.at.ok <=> inp.idx < res.size.val
        /\ x.t = "map" =>
             /\ Raised(res.get) <=> ~HasEntry(x, inp.key)
             /\ res.get.ok <=> HasEntry(x, inp.key)
        /\ res.contains.ok
        /\ res.contains.val <=> res.get.ok
        /\ x.t # "map" => ~res.contains.val

\* v[1] returned on an array of two elements where v[2] would raise, and
\* v["a"] returned on a map that has no key "c".
C15_Witness ==
  /\ pc = "accessed" /\ inp.op = "child"
  /\ \/ /\ TrValues[inp.vi].t = "arr" /\ inp.idx = 1
        /\ res.size.ok /\ res.size.val = 2 /\ res.at.ok
     \/ /\ TrValues[inp.vi].t = "map" /\ inp.key = <<97>>
        /\ res.get.ok /\ res.contains.val

\* The characters of the standard Base64 alphabet: A-Z, a-z, 0-9, + and /.
Base64Alphabet == (65..90) \cup (97..122) \cup (48..57) \cup {43, 47}

\* A text of the alphabet followed by pad characters '='.
IsBase64Text(t, pad) ==
  /\ Len(t) >= pad
  /\ \A i \in 1..Len(t) :
       IF i > Len(t) - pad THEN t[i] = 61 ELSE t[i] \in Base64Alphabet

\* C16: base64Decode(base64Encode(b)) = b; the encoded text has
\* 4 * ceil(|b| / 3) characters, all of the standard alphabet but for the
\* padding '=' at its end; and the JSON writer's ["~b", <text>, "base64"] is
\* a blob for the JSON reader whose asBlob() is b.
C16_Base64RoundTrip ==
  (pc = "accessed" /\ inp.op = "blob") =>
    /\ res.dec.ok /\ res.dec.val = inp.b
    /\ Len(res.enc) = 4 * ((Len(inp.b) + 2) \div 3)
    /\ IsBase64Text(res.enc, (3 - (Len(inp.b) % 3)) % 3)
    /\ res.isBlob.ok /\ res.isBlob.val
    /\ res.text.ok /\ res.text.val = res.enc
    /\ res.blob.ok /\ res.blob.val = inp.b

\* A blob of four bytes, the last one alone in its group, has been read
\* back.
C16_Witness ==
  /\ pc = "accessed" /\ inp.op = "blob"
  /\ inp.b = <<255, 0, 128, 77>>
  /\ res.enc = <<47, 119, 67, 65, 84, 81, 61, 61>>
  /\ res.blob.ok

\* Translating v comes to a value for which none of the nine predicates of
\* write_value holds: v itself, or an element or an entry's value of v.
RECURSIVE ReachesNoClass(_, _)
ReachesNoClass(codec, v) ==
  LET c == first_class(codec, v, 1)
  IN  /\ c.ok
      /\ CASE c.val = "none" -> TRUE
           [] c.val = "arr" ->
                LET n == R_arraySize(codec, v)
                IN  /\ n.ok
                    /\ \E i \in 0..(n.val - 1) :
                         LET e == R_at(codec, v, i)
                         IN  e.ok /\ ReachesNoClass(codec, e.val)
           [] c.val = "map" ->
                LET ks == R_keys(codec, v)
                IN  /\ ks.ok
                    /\ \E i \in 1..Len(ks.val) :
                         LET e == R_get(codec, v, ks.val[i])
                         IN  e.ok /\ ReachesNoClass(codec, e.val)
           [] OTHER -> FALSE

\* The translated buffer holds a value of no class.
Unsupported ==
  /\ pc = "translated" /\ inp.op = "translate"
  /\ LET src == R_open(inp.src, out)
     IN  src.ok /\ ReachesNoClass(inp.src, src.val)

\* C17: when write_value comes to a source value for which none of the nine
\* predicates holds, translate raises SerializationError.
C17_TranslateUnsupported ==
  Unsupported => (~res.r.ok /\ res.r.err = SerErr)

\* The containers the calls cs have opened and not closed, the innermost
\* last, whatever the calls were: pending is set by key() and cleared by a
\* value in the frame.
RECURSIVE Shape(_)
Shape(cs) ==
  IF cs = <<>> THEN <<>>
  ELSE LET st    == Shape(SubSeq(cs, 1, Len(cs) - 1))
           op    == cs[Len(cs)].op
           n     == Len(st)
           taken == IF n > 0 THEN [st EXCEPT ![n].pending = FALSE] ELSE st
       IN  IF op \in ScalarOps THEN taken
           ELSE IF op \in {"begin_array", "begin_map"}
           THEN Append(taken, [kind |-> IF op = "begin_map" THEN "map" ELSE "arr",
                               pending |-> FALSE])
           ELSE IF op = "key"
           THEN IF n > 0 THEN [st EXCEPT ![n].pending = TRUE] ELSE st
           ELSE IF op \in EndOps
           THEN IF n > 0 THEN SubSeq(st, 1, n - 1) ELSE st
           ELSE st

\* Some call of cs emitted a value, primitive or container, in a map frame
\* without a key() immediately before it.
KeylessValue(cs) ==
  \E i \in 1..Len(cs) :
    /\ cs[i].op \in ValueOps
    /\ LET st == Shape(SubSeq(cs, 1, i - 1))
       IN  st # <<>> /\ st[Len(st)].kind = "map" /\ ~st[Len(st)].pending

\* C18: the ZERA writer, after calls that have all returned.  (a) finish()
\* returns a buffer when no container is open and raises SerializationError
\* otherwise.  (b) In a map frame key() raises when a key is pending and is
\* accepted when none is; a primitive value raises when no key is pending
\* and is accepted when one is; end_map() raises when a key is pending.
\* (c) end_array(), end_map() and key() raise when the innermost open
\* container is of the other kind or none is open.  (d) finish() does not
\* return after a value was emitted in a map frame without a key.
C18_ZeraWriterStates ==
  (w.codec = "zera" /\ calls # <<>> /\ pc \in {"writing", "failed", "done"}) =>
    LET prev   == SubSeq(calls, 1, Len(calls) - 1)
        op     == calls[Len(calls)].op
        st     == Shape(prev)
        n      == Len(st)
        inmap  == n > 0 /\ st[n].kind = "map"
        inarr  == n > 0 /\ st[n].kind = "arr"
        raised == w.err = SerErr /\ pc = "failed"
        taken  == w.err = NoErr /\ pc = "writing"
    IN  /\ op = "finish" =>
             IF n = 0 THEN w.err = NoErr /\ pc = "done" /\ out # <<>>
             ELSE raised /\ out = <<>>
        /\ (inmap /\ op = "key") => IF st[n].pending THEN raised ELSE taken
        /\ (inmap /\ op \in ScalarOps) => IF st[n].pending THEN taken ELSE raised
        /\ (inmap /\ op = "end_map" /\ st[n].pending) => raised
        /\ (op = "end_array" /\ ~inarr) => raised
        /\ (op \in {"end_map", "key"} /\ ~inmap) => raised
        /\ pc = "done" => ~KeylessValue(prev)

\* A container was begun in a map frame without a key, all later calls
\* returned until the call that closed it, and that call raised.
C18_Witness ==
  /\ w.codec = "zera" /\ pc = "failed" /\ w.err = SerErr
  /\ Len(calls) = 3
  /\ calls[1].op = "begin_map" /\ calls[2].op = "begin_array"
  /\ calls[3].op = "end_array"

\* The classes in which the reader calls of the last step ended.
LastOutcomes ==
  IF res.op = "read" THEN {res.r[o] : o \in DOMAIN res.r} ELSE {res.r}

\* C19: on a buffer the ZeraDeserializer constructor accepted, every reader
\* operation on the root or on a view reached from it (the predicates, the
\* accessors, arraySize, v[i], v[k], contains, mapKeys and the dereference
\* and increment of its iterator) reads inside the buffer only and returns
\* or raises DeserializationError.
C19_ReaderMemorySafe ==
  res.op \notin {"none", "construct"} => LastOutcomes \subseteq {"returns", DesErr}

\* The header fields of a buffer of at least 20 bytes name a root ValueRef, an
\* envelope and an arena that do not fit the buffer or one another.
BadHeader(buf) ==
  \/ Len(buf) < 20
  \/ /\ Len(buf) >= 20
     /\ With(parse_header(buf).val, LAMBDA h :
          \/ h.magic # 1447970138 \/ h.version # 1 \/ h.flags # 1
          \/ h.env_size > Len(buf) \/ h.arena_ofs > Len(buf)
          \/ h.arena_ofs % 16 # 0 \/ h.arena_ofs < 20 + h.env_size
          \/ h.root_ofs + 16 > h.env_size)

\* C20: constructing a ZeraDeserializer raises DeserializationError exactly
\* for the buffers shorter than 20 bytes, with a wrong magic, version or
\* flags, with an envelope size or arena offset beyond the buffer, with an
\* arena offset that is not a multiple of 16 or lies below 20 + envelope
\* size, or with a root ValueRef that does not lie inside the envelope
\* (envelopes shorter than 16 bytes included); for every other buffer it
\* returns.
C20_HeaderValidated ==
  res.op = "construct" =>
    IF BadHeader(out) THEN res.r = DesErr ELSE res.r = "returns"

\* The operations of the MessagePack reader that read past the marker byte.
C21_Ops ==
  {"asInt64", "asUInt64", "asDouble", "asStringView", "asBlob", "at0", "at1",
   "at2", "get_a", "get_b", "contains_a", "contains_b", "mapKeys"}

\* C21: on a strict prefix of a valid MessagePack encoding, every reader
\* operation (v[i], v[k], contains, the loop over mapKeys(), asInt64,
\* asUInt64, asDouble, asStringView, asBlob) that needs bytes cut off raises
\* DeserializationError, and none reads or forms a view past the end: it
\* ends as on the whole encoding or raises DeserializationError.
C21_MsgPackTruncation ==
  (inp.op = "trunc" /\ inp.src = "msgpack" /\ res.op \in {"read", "child"}) =>
    \A o \in C21_Ops \cap DOMAIN res.r : res.r[o].same \/ res.r[o].out = DesErr

\* The operations of the CBOR reader.
C22_Ops == TruncRootOps \cup TruncChildOps

\* C22: on a strict prefix of a valid CBOR encoding, every reader operation
\* (the predicates, asInt64, asUInt64, asDouble on half, single and double
\* floats, asString, asStringView, asBlob, arraySize, v[i], v[k], contains,
\* the loop over mapKeys()) that needs bytes cut off raises
\* DeserializationError and none reads past the end: it ends as on the
\* whole encoding or raises DeserializationError.
C22_CborTruncation ==
  (inp.op = "trunc" /\ inp.src = "cbor" /\ res.op \in {"read", "child"}) =>
    \A o \in C22_Ops \cap DOMAIN res.r : res.r[o].same \/ res.r[o].out = DesErr

\* The envelope offset after the last entry of the map payload iterated from
\* it on: where the payload ends.
RECURSIVE KV_payload_end(_)
KV_payload_end(it) ==
  IF it.i >= it.n THEN it.cur ELSE KV_payload_end(KV_next(it).val)

\* View v and every view reachable from it reads without an exception, and
\* the payload of every array and object lies wholly below its ValueRef.
RECURSIVE Z_sound(_)
Z_sound(v) ==
  /\ require_vr(v)
  /\ CASE Z_tag(v) = TagNull -> TRUE
       [] Z_tag(v) = TagBool -> Z_asBool(v).ok
       [] Z_tag(v) = TagI64 -> Z_asInt64(v).ok
       [] Z_tag(v) = TagU64 -> Z_asUInt64(v).ok
       [] Z_tag(v) = TagF64 -> Z_asDouble(v).ok
       [] Z_tag(v) = TagString -> Z_asStringView(v).ok
       [] Z_tag(v) = TagTypedArray -> Z_asBlob(v).ok
       [] Z_tag(v) = TagArray ->
            /\ Z_arraySize(v).ok
            /\ Z_a(v) + 4 + 16 * Z_arraySize(v).val <= v.vr
            /\ \A i \in 0..(Z_arraySize(v).val - 1) :
                 Z_at(v, i).ok /\ Z_sound(Z_at(v, i).val)
       [] Z_tag(v) = TagObject ->
            /\ Z_keys(v).ok
            /\ KV_payload_end(KV_begin(Z_mapKeys(v).val)) <= v.vr
            /\ \A i \in 1..Len(Z_keys(v).val) :
                 Z_get(v, Z_keys(v).val[i]).ok /\ Z_sound(Z_get(v, Z_keys(v).val[i]).val)
            /\ LET kv  == Z_mapKeys(v).val
                   vrs == Z_entry_vrs(KV_begin(kv), KV_end(kv), <<>>)
               IN  \A i \in 1..Len(vrs) : Z_sound([v EXCEPT !.vr = vrs[i]])
       [] OTHER -> FALSE

\* C23: the buffer of a ZERA writer whose calls and finish() all returned
\* has magic 0x564E455A, version 1, flags 1, the arena offset 20 + envelope
\* size rounded up to a multiple of 16, length arena offset + arena size and
\* a root ValueRef inside the envelope; the ZeraDeserializer constructor
\* accepts it, every value reachable from the root reads without an
\* exception, and every array and object payload lies below the ValueRef
\* that points to it.
C23_WriterOutputWellFormed ==
  (pc = "done" /\ w.codec = "zera") =>
    /\ Len(out) >= 20
    /\ LET h == parse_header(out).val
       IN  /\ h.magic = 1447970138 /\ h.version = 1 /\ h.flags = 1
           /\ h.arena_ofs % 16 = 0
           /\ h.arena_ofs >= 20 + h.env_size /\ h.arena_ofs < 20 + h.env_size + 16
           /\ Len(out) = h.arena_ofs + Len(w.arena)
           /\ h.root_ofs + 16 <= h.env_size
    /\ init_from(out).ok
    /\ Z_sound(init_from(out).val)

\* A map holding an array and a 13-byte string has been written and finished.
C23_Witness ==
  /\ pc = "done" /\ w.codec = "zera"
  /\ calls[1].op = "begin_map"
  /\ \E j \in 1..Len(calls) : calls[j].op = "end_array"
  /\ \E i \in 1..Len(calls) : calls[i] = Call("string", S13)

\* What the calls cs[i..] make of the container the first call opened, on a
\* writer that checks nothing: st the open frames ("arr"/"map"), pend
\* whether the innermost map frame has a key awaiting its value, n the
\* elements (or key/value pairs) put directly into the first container,
\* closed whether its end call was made, ok whether the calls follow the
\* protocol (values in maps after a key, ends matching their begins, nothing
\* after the root is closed).
RECURSIVE RootContainer(_, _, _)
RootContainer(cs, i, a) ==
  IF i > Len(cs) \/ ~a.ok THEN a
  ELSE IF cs[i].op = "finish" THEN a
  ELSE IF a.closed \/ (a.st = <<>> /\ (i > 1 \/ cs[i].op \notin {"begin_array", "begin_map"}))
  THEN [a EXCEPT !.ok = FALSE]
  ELSE IF cs[i].op \in ValueOps
  THEN LET top  == IF a.st = <<>> THEN "none" ELSE a.st[Len(a.st)].kind
           held == a.st # <<>> /\ a.st[Len(a.st)].pend
           d    == IF top = "map"
                   THEN [a EXCEPT !.ok = held, !.st[Len(a.st)].pend = FALSE,
                                  !.n = IF Len(a.st) = 1 THEN @ + 1 ELSE @]
                   ELSE IF top = "arr"
                   THEN [a EXCEPT !.n = IF Len(a.st) = 1 THEN @ + 1 ELSE @]
                   ELSE a
       IN  RootContainer(cs, i + 1,
             IF cs[i].op = "begin_array"
             THEN [d EXCEPT !.st = Append(@, [kind |-> "arr", pend |-> FALSE])]
             ELSE IF cs[i].op = "begin_map"
             THEN [d EXCEPT !.st = Append(@, [kind |-> "map", pend |-> FALSE])]
             ELSE d)
  ELSE LET top == a.st[Len(a.st)]
           pop == [a EXCEPT !.st = SubSeq(@, 1, Len(@) - 1),
                            !.closed = Len(a.st) = 1]
       IN  RootContainer(cs, i + 1,
             CASE cs[i].op = "key" ->
                    IF top.kind = "map" /\ ~top.pend
                    THEN [a EXCEPT !.st[Len(a.st)].pend = TRUE]
                    ELSE [a EXCEPT !.ok = FALSE]
               [] cs[i].op = "end_array" ->
                    IF top.kind = "arr" THEN pop ELSE [a EXCEPT !.ok = FALSE]
               [] cs[i].op = "end_map" ->
                    IF top.kind = "map" /\ ~top.pend THEN pop
                    ELSE [a EXCEPT !.ok = FALSE])

FirstContainer(cs) ==
  RootContainer(cs, 1, [st |-> <<>>, n |-> 0, ok |-> TRUE, closed |-> FALSE])

\* arraySize() of the root read back, or the number of keys mapKeys() yields.
ReadBackCount(codec, buf, op) ==
  Bind(R_open(codec, buf), LAMBDA v :
    IF op = "begin_array" THEN R_arraySize(codec, v)
    ELSE Bind(R_keys(codec, v), LAMBDA ks : Ok(Len(ks))))

\* C24: MessagePack and ZERA writers: a container opened with begin_array(n)
\* or begin_map(n) and closed, holding a number of elements (or key/value
\* pairs) that may differ from n, reads back with arraySize() (or the number
\* of keys of mapKeys()) equal to the number actually emitted.
C24_ContainerCounts ==
  (/\ pc = "done" /\ w.codec \in {"zera", "msgpack"}
   /\ FirstContainer(calls).ok /\ FirstContainer(calls).closed) =>
     ReadBackCount(w.codec, out, calls[1].op) = Ok(FirstContainer(calls).n)

\* The value of the entry that mapKeys() reaches after i steps (the first is
\* 0), taken at its place in the buffer and not looked up by its key.
RECURSIVE KV_nth(_, _), C_skip_items(_, _, _)
KV_nth(it, i) ==
  IF i = 0 THEN Ok(it) ELSE Bind(KV_next(it), LAMBDA nx : KV_nth(nx, i - 1))

C_skip_items(buf, q, n) ==
  IF n = 0 THEN Ok(q) ELSE Bind(skip(buf, q), LAMBDA q1 : C_skip_items(buf, q1, n - 1))

EntryValue(codec, v, i) ==
  CASE codec = "zera" ->
         Bind(Z_mapKeys(v), LAMBDA kv :
         Bind(KV_nth(KV_begin(kv), i), LAMBDA it :
         Bind(KV_key_len(it), LAMBDA key_len :
           Ok([v EXCEPT !.vr = it.cur + 4 + key_len]))))
    [] codec = "msgpack" ->
         Bind(map_info(v), LAMBDA m :
         Bind(mp_skip_n(v, m.off, 2 * i + 1), LAMBDA off : M_sub(v, off)))
    [] codec = "cbor" ->
         Bind(C_head(v), LAMBDA h :
         Bind(C_skip_items(v.buf, v.pos + h.hlen, 2 * i + 1), LAMBDA q :
           Ok(CborView(v.buf, q))))

\* The calls the claim describes for value v: as write_value, but with the
\* value of the i-th entry of a map taken at its place.
RECURSIVE InOrder(_, _, _), EntriesInOrder(_, _, _, _, _), ElementsInOrder(_, _, _, _, _)
InOrder(codec, v, ws) ==
  LET Read(r, W(_)) == IF ~r.ok THEN Escapes(ws, r) ELSE W(r.val)
  IN  Read(first_class(codec, v, 1), LAMBDA cl :
        CASE cl = "map" ->
               Read(R_keys(codec, v), LAMBDA ks :
                 Unless(EntriesInOrder(codec, v, ks, 1, W_begin_map(ws, Len(ks))),
                        LAMBDA w2 : W_end_map(w2)))
          [] cl = "arr" ->
               Read(R_arraySize(codec, v), LAMBDA n :
                 Unless(ElementsInOrder(codec, v, n, 0, W_begin_array(ws, n)),
                        LAMBDA w2 : W_end_array(w2)))
          [] OTHER -> write_value(codec, v, ws))

EntriesInOrder(codec, v, ks, i, ws) ==
  IF ws.err # NoErr \/ i > Len(ks) THEN ws
  ELSE EntriesInOrder(codec, v, ks, i + 1,
         Unless(W_key(ws, ks[i]), LAMBDA w1 :
           With(EntryValue(codec, v, i - 1), LAMBDA e :
             IF ~e.ok THEN Escapes(w1, e) ELSE InOrder(codec, e.val, w1))))

ElementsInOrder(codec, v, n, i, ws) ==
  IF ws.err # NoErr \/ i >= n THEN ws
  ELSE ElementsInOrder(codec, v, n, i + 1,
         With(R_at(codec, v, i), LAMBDA e :
           IF ~e.ok THEN Escapes(ws, e) ELSE InOrder(codec, e.val, ws)))

\* C25: translating a source map, write_value calls begin_map(n), then for
\* each entry in mapKeys() order key(k_i) and the translation of that
\* entry's own value v_i, then end_map; arrays go element by element in
\* index order.  Stated on the calls a recording writer receives.
C25_TranslatorMapEmission ==
  (inp.op = "translate" /\ pc \in {"stored", "translated"}) =>
    LET src == R_open(inp.src, out)
    IN  src.ok =>
          write_value(inp.src, src.val, CallsRoot) = InOrder(inp.src, src.val, CallsRoot)

\* The head at position p of buf has one of the reserved additional
\* informations 28, 29, 30.
ReservedHead(buf, p) == p < Len(buf) /\ buf[p + 1] % 32 \in {28, 29, 30}

C26_RootOps ==
  {"isNull", "isBool", "isInt", "isUInt", "isFloat", "isString", "isBlob", "isMap",
   "isArray", "asBool", "asInt64", "asUInt64", "asDouble", "asString", "asBlob",
   "arraySize", "mapKeys"}

\* C26: a CBOR head with additional information 28, 29 or 30, in any major
\* type: every predicate and accessor on it raises DeserializationError, and
\* so does indexing an array, looking up a key or scanning the keys of a map
\* when that skips over such a head.
C26_CborReservedInfo ==
  (inp.op = "translate" /\ inp.src = "cbor") =>
    /\ ReservedHead(out, 0) =>
         \A o \in C26_RootOps : Outcome(T_call("cbor", CborView(out, 0), o)) = DesErr
    /\ (out[1] = 130 /\ ReservedHead(out, 1)) =>
         Outcome(T_call("cbor", CborView(out, 0), "at1")) = DesErr
    /\ (out[1] = 162 /\ ReservedHead(out, 3)) =>
         /\ Outcome(T_call("cbor", CborView(out, 0), "get_b")) = DesErr
         /\ Outcome(T_call("cbor", CborView(out, 0), "contains_b")) = DesErr
         /\ Outcome(T_call("cbor", CborView(out, 0), "mapKeys")) = DesErr

\* The ValueRef the call that led from writer ws to writer w1 delivered: the
\* root record, the last record of the innermost array, or the record put
\* into the hole of the innermost map.
Delivered(ws, w1) ==
  IF ws.st = <<>> THEN Slice(w1.env, w1.root_ofs, 16)
  ELSE LET n == Len(ws.st)
       IN  IF ws.st[n].kind = "arr"
           THEN Slice(w1.st[n].payload, Len(w1.st[n].payload) - 16, 16)
           ELSE Slice(w1.st[n].payload, ws.st[n].pending, 16)

\* string(sv) has just returned.
StringPlaced(sv) ==
  LET vr == Delivered(w, w')
  IN  IF Len(sv) <= w.inline_threshold
      THEN /\ vr[1] = TagString /\ vr[2] % 2 = 1
           /\ Slice(vr, 2, 2) = LE16(Len(sv))
           /\ Slice(vr, 4, Len(sv)) = sv
           /\ w'.arena = w.arena
      ELSE /\ vr[1] = TagString /\ vr[2] = 0
           /\ Slice(vr, 4, 4) = LE32(Len(w.arena))
           /\ Slice(vr, 8, 4) = LE32(Len(sv))
           /\ w'.arena = w.arena \o sv

StringPlacement ==
  /\ \A sv \in load.strs :
       (calls' = Append(calls, Call("string", sv)) /\ w'.err = NoErr) => StringPlaced(sv)
  /\ \A t \in Thresholds :
       calls' = Append(calls, Call("set_inline_string_threshold", t)) =>
         IF t <= 12 THEN w'.err = NoErr /\ w'.inline_threshold = t
         ELSE w'.err = SerErr /\ w'.inline_threshold = w.inline_threshold

\* The calls of cs that put a value into the root array, in order, when cs
\* writes one array of scalars and nothing else.
FlatValues(cs) == SelectSeq(cs, LAMBDA c : c.op \in ScalarOps)

IsFlatArray(cs) ==
  /\ NCalls(cs, {"begin_array"}) = 1 /\ NCalls(cs, {"end_array"}) = 1
  /\ \E i \in 1..Len(cs) : /\ cs[i].op = "begin_array"
                           /\ \A j \in 1..(i - 1) : cs[j].op \notin ValueOps
  /\ cs[Len(cs) - 1].op = "end_array"

StringsReadBack ==
  (pc = "done" /\ w.codec = "zera") =>
    LET root == init_from(out)
    IN  /\ root.ok
        /\ \A sv \in load.strs :
             (NCalls(calls, ValueOps) = 1 /\ \E i \in 1..Len(calls) : calls[i] = Call("string", sv))
               => Z_asStringView(root.val) = Ok(sv)
        /\ IsFlatArray(calls) =>
             \A i \in 1..Len(FlatValues(calls)) :
               FlatValues(calls)[i].op = "string" =>
                 Bind(Z_at(root.val, i - 1), LAMBDA e : Z_asStringView(e))
                   = Ok(FlatValues(calls)[i].arg)

\* C27: ZERA string(s): with |s| <= the inline threshold (12 unless set lower;
\* setting it above 12 raises SerializationError) the ValueRef is a String
\* with flag bit 0, aux = |s| and the bytes from position 4, and the arena
\* is unchanged; a longer s is appended to the arena unpadded and the
\* ValueRef has flag 0, a = the arena offset, b = |s|; asStringView() of the
\* value read back returns s.
C27_StringPlacement ==
  /\ [][StringPlacement]_vars
  /\ [](w.inline_threshold <= InlineMax)
  /\ []StringsReadBack

\* set_inline_string_threshold(3), then an array of a blob and a 12-byte
\* string, finished.
C27_Witness ==
  /\ pc = "done"
  /\ calls = << Call("set_inline_string_threshold", 3), Call("begin_array", 0),
                Call("binary", <<7, 8, 9>>), Call("string", S12),
                Call("end_array", 0), Call("finish", 0) >>

\* C28: write_value over the root of any buffer the ZeraDeserializer
\* constructor accepts either returns or raises after finitely many steps.
C28_TranslateTerminates == <>(pc \in {"rejected", "walked", "threw"})

\* C29: JSON writer, in a map frame after key(k), for any k, the empty
\* string included: the next value is accepted and stored under k; a second
\* key() raises; end_map() raises.
C29_JsonPendingKey ==
  (/\ w.codec = "json" /\ Len(calls) >= 2
   /\ calls[Len(calls) - 1].op = "key"
   /\ ~Frames(SubSeq(calls, 1, Len(calls) - 1)).bad) =>
    LET last == calls[Len(calls)]
        k    == calls[Len(calls) - 1].arg
        f    == Frames(SubSeq(calls, 1, Len(calls) - 1))
    IN  /\ last.op \in ValueOps =>
             /\ w.err = NoErr
             /\ Len(f.st) = 1 =>
                  /\ w.root.t = "obj" /\ w.root.v # <<>>
                  /\ w.root.v[Len(w.root.v)].k = k
        /\ last.op \in {"key", "end_map"} => w.err # NoErr

InternalGuards ==
  {"zera: internal container stack error", "zera: internal map patch out of bounds"}

\* C30: as long as no call of the ZERA writer has raised before, deliver_vr
\* raises neither of its two internal errors: every frame is an array or a
\* map, and a map frame with a pending value patch at offset p has
\* p + 16 <= the size of its payload, the 16 bytes at p zero, and before
\* them the entry header of the most recent key().
C30_InternalGuardsUnreachable ==
  w.codec = "zera" =>
    /\ w.msg \notin InternalGuards
    /\ \A j \in 1..Len(w.st) :
         /\ w.st[j].kind \in {"arr", "map"}
         /\ (w.st[j].kind = "map" /\ w.st[j].pending # NoOfs) =>
              /\ w.st[j].pending + 16 <= Len(w.st[j].payload)
              /\ w.st[j].pending + 16 = Len(w.st[j].payload)
              /\ Slice(w.st[j].payload, w.st[j].pending, 16) = Rep(16, 0)
    /\ (w.err = NoErr /\ calls # <<>> /\ calls[Len(calls)].op = "key") =>
         LET top == w.st[Len(w.st)]
             k   == calls[Len(calls)].arg
         IN  /\ top.pending = Len(top.payload) - 16
             /\ top.pending >= 4 + 4 + Len(k)
             /\ Slice(top.payload, top.pending - Len(k) - 4, Len(k) + 4)
                  = LE16(Len(k)) \o LE16(0) \o k

\* A map frame holds the hole of its second key() while an array begun as
\* that key's value is open; the first key's value has been patched in.
C30_Witness ==
  /\ w.codec = "zera" /\ w.err = NoErr /\ Len(w.st) = 2
  /\ w.st[1].kind = "map" /\ w.st[1].count = 2 /\ w.st[1].pending # NoOfs
  /\ w.st[2].kind = "arr"
  /\ \E i \in 1..Len(calls) : calls[i].op = "string"

====
